---- MODULE Spec2Model ----
(***************************************************************************)
(* Model of the orchestration layer of the Square chrome extension:        *)
(*   - AgentCoordinatorEnhanced.executeEnhancedWorkflow (workflow runner)  *)
(*   - BulkOperationManager / BulkOperation (bulk runner)                  *)
(*   - AgentFactory (agent registry) and the coordinator's task dispatch   *)
(* The agents are external: an invoked agent operation either returns a    *)
(* result with success true, returns a result with success false, or       *)
(* throws.                                                                 *)
(***************************************************************************)
EXTENDS Integers, Sequences, FiniteSets, TLC

VARIABLES
    steps,        \* workflow.steps, the declared list (input, never written)
    agents,       \* keys of AgentCoordinatorEnhanced.agents
    wfPc,         \* position of executeEnhancedWorkflow: "loop", "awaiting", "done"
    stepIdx,      \* index in steps of the step the for-of loop is at
    halted,       \* TRUE once the loop was left by break
    results,      \* the local results array
    stepResults,  \* the local stepResults map: operation name -> result
    pending,      \* what the awaited dispatch of the current step resolves to
    invoked,      \* the steps for which an agent operation was called, in call order
    thrown,       \* message of the exception an agent operation threw, "" if none
    wfReturn,     \* the value executeEnhancedWorkflow returned
    config,       \* BulkOperation.config
    status,       \* BulkOperation.status, the live record
    cancelled,    \* BulkOperation.cancelled
    opResults,    \* BulkOperation.results
    active,       \* the operation is in BulkOperationManager.activeOperations
    bulkPc,       \* position of BulkOperation.execute: "created", "batch",
                  \* "recording", "delay", "returned", "threw"; after the last
                  \* two executeBulkOperation's finally block is still to run
                  \* while active is TRUE
    batchStart,   \* the loop variable i of execute
    promises,     \* the promises of the launched batch: position -> state
    recIdx,       \* the index the forEach of processBatch is at
    progress,     \* the snapshots handed to config.onProgress, in call order
    observed,     \* the snapshot an outside caller got from getActiveOperations
                  \* since execute was suspended, <<>> if it got none
    batches,      \* the batches execute launched, in launch order
    cancelReq,    \* where execute stood when cancel was first requested
    fault,        \* message of the exception that escaped processBatch, "" if none
    bulkReturn,   \* what execute returned or threw, passed on by executeBulkOperation
    pageType,     \* AgentCoordinatorEnhanced.context.page.pageType
    onSquare,     \* window.location.hostname includes 'squareup.com'
    factoryContext, \* the context object AgentFactory.instance holds: "none"
                  \* before the singleton exists, "coordinator" for the
                  \* coordinator's context object, else the page type of a
                  \* context object of another caller
    cache,        \* AgentFactory.agents: cache key -> AgentInstance
    created,      \* the number of AgentInstances created so far; the id of
                  \* an instance is its number
    destroyed,    \* ids of the instances the factory released with destroy
    heldAgents,   \* AgentCoordinatorEnhanced.agents with its values: agent
                  \* type -> the AgentInstance whose instance it holds
    isInitialized, \* AgentCoordinatorEnhanced.isInitialized
    regCall,      \* the last call on the factory or the coordinator and how
                  \* it ended
    activeOperations, \* BulkOperationManager.activeOperations: the ids it holds
    operations,   \* the BulkOperation objects of concurrent runs, by id
    managerCall,  \* the call on the manager made in the last step, if any,
                  \* and what it returned
    callers,      \* the calls of AgentCoordinatorEnhanced.initialize
    setup         \* how often the setup steps of initialize were performed

wfVars == <<steps, agents, wfPc, stepIdx, halted, results, stepResults, pending,
            invoked, thrown, wfReturn>>

bulkVars == <<config, status, cancelled, opResults, active, bulkPc, batchStart,
              promises, recIdx, progress, observed, batches, cancelReq, fault,
              bulkReturn>>

regVars == <<pageType, onSquare, factoryContext, cache, created, destroyed,
             heldAgents, isInitialized, regCall>>

mgrVars == <<activeOperations, operations, managerCall>>

startVars == <<callers, setup>>

vars == <<wfVars, bulkVars, regVars, mgrVars, startVars>>

-----------------------------------------------------------------------------
(* Bounds of the model *)

\* longest workflow drawn
MaxSteps == 3

\* most items a bulk configuration that states its batchSize holds
MaxItems == 4

\* a bulk configuration that omits batchSize holds at most this many items more
\* than the default batch takes
MaxOverflow == 1

\* largest batchSize a bulk configuration states
MaxBatchSize == 3

\* a resolution other code than the coordinator asks for starts only while
\* fewer AgentInstances than this exist
MaxInstances == 2

\* most AgentInstances the coordinator's resolutions leave in existence
MaxCoordinatorInstances == 6

\* most items of a bulk operation that runs beside another one
MaxConcurrentItems == 2

\* most calls of initialize that overlap
MaxCallers == 2

-----------------------------------------------------------------------------
(* Workflow inputs *)

\* the agent types the coordinator initializes
AgentTypes == {"seo", "navigation", "catalog"}

\* operation names of executeSEOOperation / executeNavigationOperation /
\* executeCatalogOperation
SEOOperations == {"optimize", "validate", "bulk-update", "extract"}
NavigationOperations == {"navigate", "search", "validate", "extract-results"}
CatalogOperations == {"sync", "inventory", "pricing", "extract"}

\* the ids the steps of the workflow test carry; the executor's step type has
\* no id field and the code never reads it
StepIds == <<"nav-to-catalog", "search-item", "optimize-seo", "step-4", "step-5">>

\* messages of the exceptions an agent operation may throw
ExceptionMessages == {"timeout", "element not found"}

\* a step: dependsOn is optional (hasDependsOn = FALSE models its absence)
MkStep(id, agentType, operation, hasDependsOn, dependsOn, critical) ==
    [id |-> id, agentType |-> agentType, operation |-> operation,
     hasDependsOn |-> hasDependsOn, dependsOn |-> dependsOn, critical |-> critical]

\* the agent type the coordinator's routing table pairs with an operation
AgentTypeOf(operation) ==
    IF operation \in {"navigate", "search"} THEN "navigation" ELSE "seo"

\* dependsOn written with operation names of steps, as the executor reads them
OpDependsOn == {{"navigate"}, {"navigate", "search"}}

\* steps whose dependsOn (if any) names operations
OpSteps(i) ==
    { MkStep(StepIds[i], AgentTypeOf(op), op, FALSE, {}, c) :
        op \in {"navigate", "search"}, c \in BOOLEAN }
    \cup
    { MkStep(StepIds[i], AgentTypeOf(x[1]), x[1], TRUE, x[2], c) :
        x \in {"navigate", "search"} \X OpDependsOn, c \in BOOLEAN }

\* steps whose dependsOn (if any) names the id of one earlier step, as in the
\* workflow test (where only a step without dependsOn is critical)
IdSteps(i) ==
    { MkStep(StepIds[i], AgentTypeOf(op), op, FALSE, {}, c) :
        op \in {"navigate", "search", "optimize"}, c \in BOOLEAN }
    \cup
    { MkStep(StepIds[i], AgentTypeOf(x[1]), x[1], TRUE, {StepIds[x[2]]}, FALSE) :
        x \in {"navigate", "search", "optimize"} \X (1..(i-1)) }

\* steps without dependsOn whose dispatch ends in each way the routing can end:
\* an unknown agent type, an operation unknown for the agent type, a routable one
RoutingTargets ==
    {<<"inventory", "sync">>, <<"seo", "search">>, <<"navigation", "navigate">>}

RoutingSteps(i) ==
    { MkStep(StepIds[i], x[1], x[2], FALSE, {}, c) :
        x \in RoutingTargets, c \in BOOLEAN }

\* the steps a family of workflows may declare at position i
StepsOf(family, i) ==
    CASE family = "operation names" -> OpSteps(i)
      [] family = "step ids" -> IdSteps(i)
      [] family = "routing" -> RoutingSteps(i)

\* the workflows of length n over a family of steps
RECURSIVE WorkflowsOf(_, _)
WorkflowsOf(family, n) ==
    IF n = 0 THEN {<<>>}
    ELSE { Append(w, s) : w \in WorkflowsOf(family, n - 1), s \in StepsOf(family, n) }

\* the workflows of at most MaxSteps steps over a family of steps
WorkflowsUpTo(family) ==
    UNION { WorkflowsOf(family, n) : n \in 0..MaxSteps }

\* the agent maps a run starts with: every agent type resolved, or the SEO
\* agent missing
AgentMaps == {AgentTypes, AgentTypes \ {"seo"}}

-----------------------------------------------------------------------------
(* Results *)

\* an AgentResult; step is the index of the step it was produced for (the
\* code's result carries the step's data or the agent's own payload)
MkResult(success, error, step) ==
    [success |-> success, error |-> error, step |-> step]

NoResult == MkResult(FALSE, "", 0)

NoReturn ==
    [returned |-> FALSE, success |-> FALSE, results |-> <<>>,
     outcome |-> "", successCount |-> 0, totalCount |-> 0, error |-> ""]

\* mutant: the first result recorded under a name is kept
MapSetKeepFirst(m, name, r) ==
    [n \in (DOMAIN m) \cup {name} |-> IF n \in DOMAIN m THEN m[n] ELSE r]

\* mutant: only successful results are recorded under the operation name
MapSetSuccessOnly(m, name, r) ==
    IF r.success
    THEN [n \in (DOMAIN m) \cup {name} |-> IF n = name THEN r ELSE m[n]]
    ELSE m

\* stepResults.set(name, r)
MapSet(m, name, r) ==
    [n \in (DOMAIN m) \cup {name} |-> IF n = name THEN r ELSE m[n]]

\* results.filter(r => r.success).length
RECURSIVE SuccessCount(_)
SuccessCount(rs) ==
    IF rs = <<>> THEN 0
    ELSE (IF Head(rs).success THEN 1 ELSE 0) + SuccessCount(Tail(rs))

-----------------------------------------------------------------------------
(* executeEnhancedWorkflow *)

\* mutant: some instead of every
DependenciesMetSome(step, sr) ==
    \E dep \in step.dependsOn : dep \in DOMAIN sr /\ sr[dep].success

\* step.dependsOn.every(dep => stepResults.has(dep) && stepResults.get(dep)?.success)
DependenciesMet(step, sr) ==
    \A dep \in step.dependsOn : dep \in DOMAIN sr /\ sr[dep].success

\* the dependency branch is taken
DependencyUnmet(step, sr) ==
    step.hasDependsOn /\ ~DependenciesMet(step, sr)

\* mutant: every step is dispatched to an agent operation
RoutingErrorNever(step, ags) ==
    ""

\* the error of the routing failure the dispatch of a step ends in without
\* calling an agent, "" when the agent's operation is called
RoutingError(step, ags) ==
    IF step.agentType \notin AgentTypes THEN "Unknown agent type"
    ELSE IF step.agentType \notin ags THEN "agent not available"
    ELSE IF step.agentType = "seo" /\ step.operation \notin SEOOperations
        THEN "Unknown SEO operation"
    ELSE IF step.agentType = "navigation" /\ step.operation \notin NavigationOperations
        THEN "Unknown navigation operation"
    ELSE IF step.agentType = "catalog" /\ step.operation \notin CatalogOperations
        THEN "Unknown catalog operation"
    ELSE ""

\* mutant: the break is missing
BreaksLoopNever(result, step) ==
    FALSE

\* mutant: every failed step breaks, critical or not
BreaksLoopAnyFailure(result, step) ==
    ~result.success

\* a failed step leaves the loop by break
BreaksLoop(result, step) ==
    ~result.success /\ step.critical

\* mutant: success means every step succeeded
WorkflowSuccessAll(rs) ==
    SuccessCount(rs) = Len(rs)

\* the success flag of the normal return
WorkflowSuccess(rs) ==
    SuccessCount(rs) > 0

\* the normal return value
CompletedReturn(rs) ==
    [returned |-> TRUE, success |-> WorkflowSuccess(rs), results |-> rs,
     outcome |-> "completed", successCount |-> SuccessCount(rs),
     totalCount |-> Len(rs), error |-> ""]

\* mutant: the catch block drops the results recorded so far
FailedReturnNoResults(rs, message) ==
    [returned |-> TRUE, success |-> FALSE, results |-> <<>>,
     outcome |-> "failed", successCount |-> 0, totalCount |-> 0,
     error |-> message]

\* the return value of the catch block
FailedReturn(rs, message) ==
    [returned |-> TRUE, success |-> FALSE, results |-> rs,
     outcome |-> "failed", successCount |-> 0, totalCount |-> 0,
     error |-> message]

\* mutant: unshift instead of push
PushResultFront(rs, result) ==
    <<result>> \o rs

\* results.push(result)
PushResult(rs, result) ==
    Append(rs, result)

\* record a result for the current step and go on, or break
RecordResult(result) ==
    /\ results' = PushResult(results, result)
    /\ stepResults' = MapSet(stepResults, steps[stepIdx].operation, result)
    /\ IF BreaksLoop(result, steps[stepIdx])
       THEN halted' = TRUE /\ stepIdx' = stepIdx
       ELSE halted' = FALSE /\ stepIdx' = stepIdx + 1
    /\ wfPc' = "loop"
    /\ pending' = NoResult

AtStep ==
    wfPc = "loop" /\ ~halted /\ stepIdx <= Len(steps)

\* lines 237-256: unmet dependencies, the step is failed without dispatch
StepDependencyUnmet ==
    /\ AtStep
    /\ DependencyUnmet(steps[stepIdx], stepResults)
    /\ RecordResult(MkResult(FALSE, "Dependencies not met", stepIdx))
    /\ UNCHANGED <<steps, agents, invoked, thrown, wfReturn>>
    /\ UNCHANGED bulkVars
    /\ UNCHANGED regVars
    /\ UNCHANGED mgrVars
    /\ UNCHANGED startVars

\* lines 259-286: the step is dispatched; the agent operation is called unless
\* the routing fails
StepDispatch ==
    /\ AtStep
    /\ ~DependencyUnmet(steps[stepIdx], stepResults)
    /\ LET err == RoutingError(steps[stepIdx], agents) IN
        /\ pending' = MkResult(FALSE, err, stepIdx)
        /\ invoked' = IF err = "" THEN Append(invoked, stepIdx) ELSE invoked
    /\ wfPc' = "awaiting"
    /\ UNCHANGED <<steps, agents, stepIdx, halted, results, stepResults, thrown,
                   wfReturn>>
    /\ UNCHANGED bulkVars
    /\ UNCHANGED regVars
    /\ UNCHANGED mgrVars
    /\ UNCHANGED startVars

\* a routing failure comes back as a failed result
StepRoutingFails ==
    /\ wfPc = "awaiting"
    /\ pending.error # ""
    /\ RecordResult(pending)
    /\ UNCHANGED <<steps, agents, invoked, thrown, wfReturn>>
    /\ UNCHANGED bulkVars
    /\ UNCHANGED regVars
    /\ UNCHANGED mgrVars
    /\ UNCHANGED startVars

\* lines 288-295: the agent operation returns a result
StepAgentReturns ==
    /\ wfPc = "awaiting"
    /\ pending.error = ""
    /\ \E ok \in BOOLEAN :
        RecordResult(MkResult(ok, IF ok THEN "" ELSE "agent error", stepIdx))
    /\ UNCHANGED <<steps, agents, invoked, thrown, wfReturn>>
    /\ UNCHANGED bulkVars
    /\ UNCHANGED regVars
    /\ UNCHANGED mgrVars
    /\ UNCHANGED startVars

\* lines 307-313: the agent operation throws, the catch block returns
StepAgentThrows ==
    /\ wfPc = "awaiting"
    /\ pending.error = ""
    /\ \E message \in ExceptionMessages :
        /\ thrown' = message
        /\ wfReturn' = FailedReturn(results, message)
    /\ wfPc' = "done"
    /\ pending' = NoResult
    /\ UNCHANGED <<steps, agents, stepIdx, halted, results, stepResults, invoked>>
    /\ UNCHANGED bulkVars
    /\ UNCHANGED regVars
    /\ UNCHANGED mgrVars
    /\ UNCHANGED startVars

\* lines 298-305: the loop is over, by exhaustion or by break
WorkflowReturn ==
    /\ wfPc = "loop"
    /\ halted \/ stepIdx > Len(steps)
    /\ wfReturn' = CompletedReturn(results)
    /\ wfPc' = "done"
    /\ UNCHANGED <<steps, agents, stepIdx, halted, results, stepResults, pending,
                   invoked, thrown>>
    /\ UNCHANGED bulkVars
    /\ UNCHANGED regVars
    /\ UNCHANGED mgrVars
    /\ UNCHANGED startVars

WfInit ==
    /\ \/ /\ steps \in WorkflowsUpTo("operation names") \cup WorkflowsUpTo("step ids")
          /\ agents = AgentTypes
       \/ /\ steps \in WorkflowsUpTo("routing")
          /\ agents \in AgentMaps
    /\ wfPc = "loop"
    /\ stepIdx = 1
    /\ halted = FALSE
    /\ results = <<>>
    /\ stepResults = [n \in {} |-> NoResult]
    /\ pending = NoResult
    /\ invoked = <<>>
    /\ thrown = ""
    /\ wfReturn = NoReturn

WfNext ==
    \/ StepDependencyUnmet
    \/ StepDispatch
    \/ StepRoutingFails
    \/ StepAgentReturns
    \/ StepAgentThrows
    \/ WorkflowReturn

-----------------------------------------------------------------------------
(* Bulk inputs *)

\* this.config.batchSize || 5
DefaultBatchSize == 5

\* the bulk operation types processItem knows
BulkTypes ==
    {"seo-bulk-update", "catalog-bulk-sync", "inventory-bulk-update",
     "pricing-bulk-update"}

\* the (type, agentType) pairs drawn: a routable one, an unknown type, an agent
\* type that is not registered
BulkTargets ==
    {<<"catalog-bulk-sync", "catalog">>, <<"report-bulk", "catalog">>,
     <<"catalog-bulk-sync", "warehouse">>}

\* batchSize 0 models an omitted (or zero) batchSize, delayBetweenBatches 0 an
\* omitted one; the items are numbered 1..nItems; the runs with the default
\* batch size are drawn without a callback
BulkConfigs ==
    [nItems : 0..MaxItems, batchSize : 1..MaxBatchSize,
     delayBetweenBatches : {0, 100}, hasOnProgress : BOOLEAN,
     target : BulkTargets]
    \cup
    [nItems : 0..(DefaultBatchSize + MaxOverflow), batchSize : {0},
     delayBetweenBatches : {0, 100}, hasOnProgress : {FALSE},
     target : BulkTargets]

\* config.items
Items(cfg) == [k \in 1..cfg.nItems |-> k]

\* how a settled item promise ended: fulfilled with success true, fulfilled
\* with success false, rejected
Outcomes == {"ok", "fail", "throw"}

\* what the onProgress callback does with the snapshot it gets: return, write
\* to it, call cancelOperation with the snapshot's id, throw
CallbackBehaviours == {"return", "mutate", "cancel", "throw"}

\* message of the exception a throwing onProgress callback throws
CallbackError == "onProgress failed"

-----------------------------------------------------------------------------
(* BulkOperation *)

\* the status record the constructor builds
NewStatus(cfg) ==
    [totalItems |-> cfg.nItems, processedItems |-> 0, successCount |-> 0,
     failureCount |-> 0, status |-> "pending", hasEndTime |-> FALSE,
     ref |-> "live"]

NoBulkReturn ==
    [returned |-> FALSE, threw |-> FALSE, error |-> "", success |-> FALSE,
     totalItems |-> 0, successCount |-> 0, failureCount |-> 0, results |-> <<>>]

\* no cancel was requested
NoCancel == [point |-> "", batch |-> 0]

\* an entry of this.results for an item
MkItemResult(success, error, item) ==
    [success |-> success, error |-> error, item |-> item]

\* mutant: the configured batchSize is ignored
BatchSizeAlwaysDefault(cfg) ==
    DefaultBatchSize

\* const batchSize = this.config.batchSize || 5
BatchSize(cfg) ==
    IF cfg.batchSize = 0 THEN DefaultBatchSize ELSE cfg.batchSize

\* mutant: the slice takes the item at index to as well
SliceInclusive(items, from, to) ==
    [k \in 1..((IF to + 1 < Len(items) THEN to + 1 ELSE Len(items)) - from) |->
        items[from + k]]

\* items.slice(from, to), from and to counted from 0
Slice(items, from, to) ==
    [k \in 1..((IF to < Len(items) THEN to ELSE Len(items)) - from) |-> items[from + k]]

\* the batch execute launches at loop index idx
BatchAt(cfg, idx) ==
    Slice(Items(cfg), idx, idx + BatchSize(cfg))

\* mutant: the loop index advances by one item instead of one batch
NextBatchStartByOne(idx, b) ==
    idx + 1

\* i += batchSize
NextBatchStart(idx, b) ==
    idx + b

\* the message processItem throws before it calls the agent, "" if it calls it
ItemRoutingError(cfg, ags) ==
    IF cfg.target[2] \notin ags THEN "Agent not found"
    ELSE IF cfg.target[1] \notin BulkTypes THEN "Unknown bulk operation type"
    ELSE ""

\* mutant: getStatus returns this.status itself
GetStatusLive(st) ==
    st

\* getStatus: { ...this.status }, a new object with the values of the fields;
\* ref tells the object a record stands for: "live" is this.status
GetStatusCopy(st) ==
    [st EXCEPT !.ref = "copy"]

\* what a recipient that writes to a status object it was given leaves in it
Scribble(s) ==
    [s EXCEPT !.processedItems = 0, !.successCount = 0, !.failureCount = 0,
              !.status = "pending"]

\* this.status after a recipient wrote to the object getStatus gave it
WrittenThrough(live, snapshot) ==
    IF snapshot.ref = "live" THEN Scribble(live) ELSE live

\* mutant: a rejected promise is counted as processed but not as a failure
CountSettledFulfilledOnly(st, outcome) ==
    CASE outcome = "ok" ->
            [st EXCEPT !.processedItems = @ + 1, !.successCount = @ + 1]
      [] outcome = "fail" ->
            [st EXCEPT !.processedItems = @ + 1, !.failureCount = @ + 1]
      [] outcome = "throw" ->
            [st EXCEPT !.processedItems = @ + 1]

\* mutant: an item that did not succeed is not counted as processed
CountSettledSuccessOnly(st, outcome) ==
    IF outcome = "ok"
    THEN [st EXCEPT !.processedItems = @ + 1, !.successCount = @ + 1]
    ELSE [st EXCEPT !.failureCount = @ + 1]

\* lines 146-152: the counters after the forEach body took a settled promise
CountSettled(st, outcome) ==
    IF outcome = "ok"
    THEN [st EXCEPT !.processedItems = @ + 1, !.successCount = @ + 1]
    ELSE [st EXCEPT !.processedItems = @ + 1, !.failureCount = @ + 1]

\* lines 148-161: the entry the forEach body pushes for a settled promise
SettledResult(outcome, item, routingError) ==
    IF outcome = "ok" THEN MkItemResult(TRUE, "", item)
    ELSE IF outcome = "throw"
    THEN MkItemResult(FALSE,
                      IF routingError = "" THEN "agent threw" ELSE routingError,
                      item)
    ELSE MkItemResult(FALSE, "agent error", item)

\* mutant: the join of the batch never settles
JoinNever(ps) ==
    "pending"

\* mutant: the join of Promise.all, rejected as soon as one promise is rejected
JoinAll(ps) ==
    IF \E k \in DOMAIN ps : ps[k] = "throw" THEN "rejected"
    ELSE IF \E k \in DOMAIN ps : ps[k] = "pending" THEN "pending"
    ELSE "fulfilled"

\* mutant: processBatch does not wait for the promises
JoinNoWait(ps) ==
    "fulfilled"

\* mutant: the join is fulfilled as soon as one promise is settled
JoinAny(ps) ==
    IF ps = <<>> \/ \E k \in DOMAIN ps : ps[k] # "pending"
    THEN "fulfilled" ELSE "pending"

\* line 143: the state of Promise.allSettled(promises): it is fulfilled once
\* no promise is pending, and is never rejected
Join(ps) ==
    IF \E k \in DOMAIN ps : ps[k] = "pending" THEN "pending" ELSE "fulfilled"

\* mutant: the loop does not look at the cancelled flag
LaunchesBatchIgnoringCancel(idx, n, canc) ==
    idx < n

\* lines 106-110: the loop goes on to launch the batch at index idx
LaunchesBatch(idx, n, canc) ==
    idx < n /\ ~canc

\* mutant: the run counts as a success only when no item failed
BulkResultNoFailure(st, rs) ==
    [returned |-> TRUE, threw |-> FALSE, error |-> "",
     success |-> st.failureCount = 0,
     totalItems |-> st.totalItems, successCount |-> st.successCount,
     failureCount |-> st.failureCount, results |-> rs]

\* mutant: a run that reaches the end of the loop is completed
FinalStatusAlwaysCompleted(st, canc) ==
    [st EXCEPT !.status = "completed", !.hasEndTime = TRUE]

\* mutant: the run ends without an endTime
FinalStatusWithoutEndTime(st, canc) ==
    [st EXCEPT !.status = IF canc THEN "cancelled" ELSE "completed"]

\* lines 121-132: the status execute ends with and the value it returns
FinalStatus(st, canc) ==
    [st EXCEPT !.status = IF canc THEN "cancelled" ELSE "completed",
               !.hasEndTime = TRUE]

BulkResult(st, rs) ==
    [returned |-> TRUE, threw |-> FALSE, error |-> "",
     success |-> st.successCount > 0,
     totalItems |-> st.totalItems, successCount |-> st.successCount,
     failureCount |-> st.failureCount, results |-> rs]

\* mutant: the catch block leaves the status as it is
FailedStatusUntouched(st) ==
    st

\* lines 134-138: the status after an exception escaped processBatch
FailedStatus(st) ==
    [st EXCEPT !.status = "failed", !.hasEndTime = TRUE]

\* lines 134-138: the catch block of execute, the exception is thrown on
Fails(st, message) ==
    /\ status' = FailedStatus(st)
    /\ bulkPc' = "threw"
    /\ fault' = message
    /\ bulkReturn' = [NoBulkReturn EXCEPT !.threw = TRUE, !.error = message]

\* mutant: the delay follows the last batch as well
DelaysAfterEveryBatch(idx, cfg) ==
    cfg.delayBetweenBatches > 0

\* lines 116-118: i + batchSize < items.length && delayBetweenBatches
DelaysAfterBatch(idx, cfg) ==
    idx + BatchSize(cfg) < cfg.nItems /\ cfg.delayBetweenBatches > 0

\* lines 106-132: the loop of execute from its test at index idx on, up to the
\* next await or the return; st, canc, rs are the status, the cancelled flag
\* and the results at that point
LoopFrom(idx, st, canc, rs) ==
    IF LaunchesBatch(idx, config.nItems, canc)
    THEN /\ bulkPc' = "batch"
         /\ batchStart' = idx
         /\ batches' = Append(batches, BatchAt(config, idx))
         /\ promises' = [k \in 1..Len(BatchAt(config, idx)) |->
                            IF ItemRoutingError(config, agents) = ""
                            THEN "pending" ELSE "throw"]
         /\ status' = st
         /\ UNCHANGED bulkReturn
    ELSE /\ bulkPc' = "returned"
         /\ batchStart' = idx
         /\ batches' = batches
         /\ promises' = <<>>
         /\ status' = FinalStatus(st, canc)
         /\ bulkReturn' = BulkResult(FinalStatus(st, canc), rs)

\* lines 20-27, 97-113: executeBulkOperation calls execute, which runs to its
\* first await or to its return
Execute ==
    /\ bulkPc = "created"
    /\ LoopFrom(0, [status EXCEPT !.status = "running"], cancelled, opResults)
    /\ UNCHANGED <<config, cancelled, opResults, active, recIdx, progress, observed,
                   cancelReq, fault>>
    /\ UNCHANGED wfVars
    /\ UNCHANGED regVars
    /\ UNCHANGED mgrVars
    /\ UNCHANGED startVars

\* an agent call of the launched batch settles
ItemSettles ==
    /\ bulkPc = "batch"
    /\ \E k \in DOMAIN promises, outcome \in Outcomes :
        /\ promises[k] = "pending"
        /\ promises' = [promises EXCEPT ![k] = outcome]
    /\ UNCHANGED <<config, status, cancelled, opResults, active, bulkPc, batchStart,
                   recIdx, progress, observed, batches, cancelReq, fault, bulkReturn>>
    /\ UNCHANGED wfVars
    /\ UNCHANGED regVars
    /\ UNCHANGED mgrVars
    /\ UNCHANGED startVars

\* line 143: the join of the batch's promises is settled: fulfilled, the
\* forEach starts; rejected, execute's catch block runs
BatchSettled ==
    /\ bulkPc = "batch"
    /\ Join(promises) # "pending"
    /\ recIdx' = 0
    /\ IF Join(promises) = "fulfilled"
       THEN bulkPc' = "recording" /\ UNCHANGED <<status, fault, bulkReturn>>
       ELSE Fails(status, "agent threw")
    /\ observed' = <<>>
    /\ UNCHANGED <<config, cancelled, opResults, active, batchStart, promises,
                   progress, batches, cancelReq>>
    /\ UNCHANGED wfVars
    /\ UNCHANGED regVars
    /\ UNCHANGED mgrVars
    /\ UNCHANGED startVars

\* lines 145-168: one turn of the forEach body, with the onProgress call if one
\* is configured; after the last turn execute goes on (lines 115-132); when the
\* callback throws execute's catch block runs (lines 134-138)
RecordItem ==
    /\ bulkPc = "recording"
    /\ recIdx < Len(promises)
    /\ LET index == recIdx
           outcome == promises[index + 1]
           item == BatchAt(config, batchStart)[index + 1]
           counted == CountSettled(status, outcome)
           rs == Append(opResults,
                        SettledResult(outcome, item, ItemRoutingError(config, agents)))
       IN
        /\ opResults' = rs
        /\ recIdx' = index + 1
        /\ \E cb \in (IF config.hasOnProgress THEN CallbackBehaviours ELSE {"none"}) :
          LET st == IF cb = "mutate"
                    THEN WrittenThrough(counted, GetStatusCopy(counted))
                    ELSE counted
          IN
            /\ progress' = IF config.hasOnProgress
                           THEN Append(progress, GetStatusCopy(counted)) ELSE progress
            /\ cancelled' = (cancelled \/ cb = "cancel")
            /\ cancelReq' = IF cb = "cancel" /\ ~cancelled
                            THEN [point |-> bulkPc, batch |-> Len(batches)]
                            ELSE cancelReq
            /\ IF cb = "throw"
               THEN /\ Fails(st, CallbackError)
                    /\ UNCHANGED <<batchStart, promises, batches>>
               ELSE IF index + 1 < Len(promises)
               THEN /\ status' = st
                    /\ UNCHANGED <<bulkPc, batchStart, promises, batches, fault,
                                   bulkReturn>>
               ELSE IF DelaysAfterBatch(batchStart, config)
               THEN /\ status' = st
                    /\ bulkPc' = "delay"
                    /\ UNCHANGED <<batchStart, promises, batches, fault, bulkReturn>>
               ELSE /\ LoopFrom(NextBatchStart(batchStart, BatchSize(config)), st,
                                cancelled', rs)
                    /\ UNCHANGED fault
    /\ UNCHANGED <<config, active, observed>>
    /\ UNCHANGED wfVars
    /\ UNCHANGED regVars
    /\ UNCHANGED mgrVars
    /\ UNCHANGED startVars

\* line 117: the delay between two batches is over
DelayElapses ==
    /\ bulkPc = "delay"
    /\ LoopFrom(NextBatchStart(batchStart, BatchSize(config)), status, cancelled,
                opResults)
    /\ observed' = <<>>
    /\ UNCHANGED <<config, cancelled, opResults, active, recIdx, progress,
                   cancelReq, fault>>
    /\ UNCHANGED wfVars
    /\ UNCHANGED regVars
    /\ UNCHANGED mgrVars
    /\ UNCHANGED startVars

\* lines 26-31: execute has returned or thrown, executeBulkOperation goes on
\* after its await: the finally block removes the operation, the result or
\* the exception goes to the caller
ExecuteBulkOperationEnds ==
    /\ bulkPc \in {"returned", "threw"}
    /\ active
    /\ active' = FALSE
    /\ observed' = <<>>
    /\ UNCHANGED <<config, status, cancelled, opResults, bulkPc, batchStart, promises,
                   recIdx, progress, batches, cancelReq, fault, bulkReturn>>
    /\ UNCHANGED wfVars
    /\ UNCHANGED regVars
    /\ UNCHANGED mgrVars
    /\ UNCHANGED startVars

\* the points where execute is suspended and other code of the page runs
Suspended == bulkPc \in {"batch", "delay"}

\* execute is over and executeBulkOperation has not yet run on after its await:
\* jobs other code queued before execute's last turn run here
Finishing == bulkPc \in {"returned", "threw"} /\ active

\* the id executeBulkOperation generated for the operation, and an id it never
\* generated
OperationId == "bulk-op-1"
UnknownId == "bulk-op-0"

\* lines 44-51: what cancelOperation(operationId) returns
CancelOperationResult(operationId) ==
    operationId = OperationId /\ active

\* code other than execute and the callback it calls can run
OutsideCodeRuns == Suspended \/ bulkPc \in {"returned", "threw"}

\* lines 44-51, 197-199: cancelOperation finds the operation and sets its flag;
\* a call that finds none, or finds the flag set, changes nothing
CancelOperation ==
    /\ OutsideCodeRuns
    /\ CancelOperationResult(OperationId)
    /\ ~cancelled
    /\ cancelled' = TRUE
    /\ cancelReq' = [point |-> bulkPc, batch |-> Len(batches)]
    /\ UNCHANGED <<config, status, opResults, active, bulkPc, batchStart, promises,
                   recIdx, progress, observed, batches, fault, bulkReturn>>
    /\ UNCHANGED wfVars
    /\ UNCHANGED regVars
    /\ UNCHANGED mgrVars
    /\ UNCHANGED startVars

\* lines 37-39, 201-203: getActiveOperations hands out a copy of the status
GetActiveOperations ==
    /\ Suspended \/ Finishing
    /\ active
    /\ observed' = <<GetStatusCopy(status)>>
    /\ observed' # observed
    /\ UNCHANGED <<config, status, cancelled, opResults, active, bulkPc, batchStart,
                   promises, recIdx, progress, batches, cancelReq, fault, bulkReturn>>
    /\ UNCHANGED wfVars
    /\ UNCHANGED regVars
    /\ UNCHANGED mgrVars
    /\ UNCHANGED startVars

\* a caller writes to the snapshot getActiveOperations gave it
MutateSnapshot ==
    /\ Suspended \/ Finishing
    /\ observed # <<>>
    /\ observed[1] # Scribble(observed[1])
    /\ observed' = <<Scribble(observed[1])>>
    /\ status' = WrittenThrough(status, observed[1])
    /\ UNCHANGED <<config, cancelled, opResults, active, bulkPc, batchStart, promises,
                   recIdx, progress, batches, cancelReq, fault, bulkReturn>>
    /\ UNCHANGED wfVars
    /\ UNCHANGED regVars
    /\ UNCHANGED mgrVars
    /\ UNCHANGED startVars

BulkInit ==
    /\ config \in BulkConfigs
    /\ status = NewStatus(config)
    /\ cancelled = FALSE
    /\ opResults = <<>>
    /\ active = TRUE
    /\ bulkPc = "created"
    /\ batchStart = 0
    /\ promises = <<>>
    /\ recIdx = 0
    /\ progress = <<>>
    /\ observed = <<>>
    /\ batches = <<>>
    /\ cancelReq = NoCancel
    /\ fault = ""
    /\ bulkReturn = NoBulkReturn

BulkNext ==
    \/ Execute
    \/ ItemSettles
    \/ BatchSettled
    \/ RecordItem
    \/ DelayElapses
    \/ ExecuteBulkOperationEnds
    \/ CancelOperation
    \/ MutateSnapshot
    \/ GetActiveOperations

-----------------------------------------------------------------------------
(* BulkOperationManager with several operations at once *)

\* the ids generateOperationId gave the executeBulkOperation calls of a page
OperationIds == {OperationId, "bulk-op-2"}

\* the configurations of the concurrent runs: batches of one item, no delay
ConcurrentConfigs ==
    { cfg \in BulkConfigs :
        /\ cfg.nItems <= MaxConcurrentItems
        /\ cfg.batchSize = 1
        /\ cfg.delayBetweenBatches = 0
        /\ cfg.target = <<"catalog-bulk-sync", "catalog">> }

\* how the agent calls of the concurrent runs settle: fulfilled with success
\* true, or rejected
ConcurrentOutcomes == {"ok", "throw"}

\* a BulkOperation object: pc is the position of its execute ("none": the
\* object does not exist yet), idx the loop index, handedOver tells that
\* executeBulkOperation has passed the outcome on to its caller
NoOperation ==
    [config |-> [nItems |-> 0, batchSize |-> 1, delayBetweenBatches |-> 0,
                 hasOnProgress |-> FALSE,
                 target |-> <<"catalog-bulk-sync", "catalog">>],
     status |-> [totalItems |-> 0, processedItems |-> 0, successCount |-> 0,
                 failureCount |-> 0, status |-> "pending", hasEndTime |-> FALSE,
                 ref |-> "live"],
     cancelled |-> FALSE, results |-> <<>>, pc |-> "none", idx |-> 0,
     handedOver |-> FALSE]

\* lines 81-95: new BulkOperation(id, config, agents)
NewOperation(cfg) ==
    [NoOperation EXCEPT !.config = cfg, !.status = NewStatus(cfg), !.pc = "created"]

NoManagerCall == [op |-> "", id |-> "", result |-> FALSE]

\* lines 106-132: the loop of execute of one operation from its test at index
\* idx on, up to the next await or the return
RunFrom(op, idx, st, rs) ==
    IF LaunchesBatch(idx, op.config.nItems, op.cancelled)
    THEN [op EXCEPT !.pc = "batch", !.idx = idx, !.status = st, !.results = rs]
    ELSE [op EXCEPT !.pc = "returned", !.idx = idx,
                    !.status = FinalStatus(st, op.cancelled), !.results = rs]

\* lines 141-168 and 115-138: the batch of one item at the loop index has
\* settled; the forEach records it and calls onProgress, execute goes on to
\* the next await or the return, or to its catch block
AfterBatch(op, outcome, cb) ==
    LET counted == CountSettled(op.status, outcome)
        rs == Append(op.results,
                     SettledResult(outcome, BatchAt(op.config, op.idx)[1], ""))
    IN  IF cb = "throw"
        THEN [op EXCEPT !.pc = "threw", !.status = FailedStatus(counted),
                        !.results = rs]
        ELSE RunFrom(op, NextBatchStart(op.idx, BatchSize(op.config)), counted, rs)

\* mutant: cancel reaches every operation of the manager
CancelledAll(os, act, id) ==
    IF id \in act
    THEN [o \in DOMAIN os |-> IF o \in act THEN [os[o] EXCEPT !.cancelled = TRUE]
                                           ELSE os[o]]
    ELSE os

\* lines 44-51, 197-199: the operations after cancelOperation(id)
Cancelled(os, act, id) ==
    IF id \in act THEN [os EXCEPT ![id].cancelled = TRUE] ELSE os

\* lines 20-27, 97-113: executeBulkOperation creates the operation, registers
\* it and calls execute, which runs to its first await or to its return
ExecuteBulkOperation(id, cfg) ==
    /\ operations[id].pc = "none"
    /\ operations' =
        [operations EXCEPT ![id] =
            RunFrom(NewOperation(cfg), 0,
                    [NewStatus(cfg) EXCEPT !.status = "running"], <<>>)]
    /\ activeOperations' = activeOperations \cup {id}
    /\ managerCall' = [op |-> "executeBulkOperation", id |-> id, result |-> FALSE]
    /\ UNCHANGED <<wfVars, bulkVars, regVars>>
    /\ UNCHANGED startVars

\* the agent call of the batch in flight settles and processBatch goes on
OperationBatchSettled(id) ==
    /\ operations[id].pc = "batch"
    /\ \E outcome \in ConcurrentOutcomes,
          cb \in (IF operations[id].config.hasOnProgress
                  THEN {"return", "throw"} ELSE {"none"}) :
        operations' = [operations EXCEPT ![id] = AfterBatch(operations[id], outcome, cb)]
    /\ managerCall' = NoManagerCall
    /\ UNCHANGED activeOperations
    /\ UNCHANGED <<wfVars, bulkVars, regVars>>
    /\ UNCHANGED startVars

\* lines 26-31: execute returned or threw; the finally block removes the
\* operation and the outcome goes to the caller of executeBulkOperation
ExecuteBulkOperationSettles(id) ==
    /\ operations[id].pc \in {"returned", "threw"}
    /\ ~operations[id].handedOver
    /\ activeOperations' = activeOperations \ {id}
    /\ operations' = [operations EXCEPT ![id].handedOver = TRUE]
    /\ managerCall' = NoManagerCall
    /\ UNCHANGED <<wfVars, bulkVars, regVars>>
    /\ UNCHANGED startVars

\* lines 44-51: cancelOperation(id), called by other code between two turns
ManagerCancelOperation(id) ==
    /\ operations' = Cancelled(operations, activeOperations, id)
    /\ managerCall' = [op |-> "cancelOperation", id |-> id,
                       result |-> id \in activeOperations]
    /\ UNCHANGED activeOperations
    /\ UNCHANGED <<wfVars, bulkVars, regVars>>
    /\ UNCHANGED startVars

\* no executeBulkOperation was called yet
ManagerInit ==
    /\ activeOperations = {}
    /\ operations = [id \in OperationIds |-> NoOperation]
    /\ managerCall = NoManagerCall

ManagerNext ==
    \/ \E id \in OperationIds, cfg \in ConcurrentConfigs : ExecuteBulkOperation(id, cfg)
    \/ \E id \in OperationIds : OperationBatchSettled(id)
    \/ \E id \in OperationIds : ExecuteBulkOperationSettles(id)
    \/ \E id \in OperationIds \cup {UnknownId} : ManagerCancelOperation(id)

-----------------------------------------------------------------------------
(* Agent registry: AgentFactory and the coordinator's agent map *)

\* PageContext.pageType
PageTypes ==
    {"dashboard", "items-library", "item-detail", "item-edit", "inventory",
     "seo-settings", "unknown"}

\* AgentType: the enhanced types and the mock types
MockTypes == {"mock-seo", "mock-navigation", "mock-catalog"}

AllAgentTypes == AgentTypes \cup MockTypes

\* type.startsWith('mock-')
IsMock(type) ==
    type \in MockTypes

\* `mock-${type}`
MockOf(type) ==
    CASE type = "seo" -> "mock-seo"
      [] type = "navigation" -> "mock-navigation"
      [] type = "catalog" -> "mock-catalog"

\* a name of an agent type or of a page type as the text the cache key is made
\* of: the sequence of its words, which '-' separates
Words(name) ==
    CASE name = "mock-seo" -> <<"mock", "seo">>
      [] name = "mock-navigation" -> <<"mock", "navigation">>
      [] name = "mock-catalog" -> <<"mock", "catalog">>
      [] name = "items-library" -> <<"items", "library">>
      [] name = "item-detail" -> <<"item", "detail">>
      [] name = "item-edit" -> <<"item", "edit">>
      [] name = "seo-settings" -> <<"seo", "settings">>
      [] OTHER -> <<name>>

\* cacheKey: `${type}-${this.context.page.pageType}`
CacheKey(type, page) ==
    <<type, page>>

\* the text of a cache key
KeyText(key) ==
    Words(key[1]) \o Words(key[2])

\* mutant: includes is true of every text
IncludesAlways(text, part) ==
    TRUE

\* text.includes(part)
Includes(text, part) ==
    \E i \in 1..(Len(text) - Len(part) + 1) :
        SubSeq(text, i, i + Len(part) - 1) = part

\* isValidForSEO
IsValidForSEO(page) ==
    page \in {"item-detail", "item-edit", "items-library"}

\* isValidForNavigation
IsValidForNavigation(page, hostOnSquare) ==
    page # "unknown" /\ hostOnSquare

\* isValidForCatalog
IsValidForCatalog(page) ==
    page \in {"items-library", "item-detail", "item-edit", "inventory"}

\* the page check createAgent makes before it constructs an enhanced agent
IsValidFor(type, page, hostOnSquare) ==
    CASE type = "seo" -> IsValidForSEO(page)
      [] type = "navigation" -> IsValidForNavigation(page, hostOnSquare)
      [] type = "catalog" -> IsValidForCatalog(page)
      [] OTHER -> TRUE

\* how the constructors a resolution may run end: all construct, the one of
\* the enhanced agent throws, that one and createMockAgents throw
Builds == {"all", "mock only", "none"}

\* the constructor createAgent runs for the type does not throw
Built(type, builds) ==
    IF IsMock(type) THEN builds # "none" ELSE builds = "all"

\* mutant: createAgent skips the page check
CreatesUnchecked(type, page, hostOnSquare, builds) ==
    Built(type, builds)

\* createAgent returns an AgentInstance: the page check passes and the
\* constructor (createMockAgents for a mock type) does not throw; otherwise
\* createAgent throws or returns null
Creates(type, page, hostOnSquare, builds) ==
    IsValidFor(type, page, hostOnSquare) /\ Built(type, builds)

\* the AgentInstance createAgent and createMockAgent return; id tells the
\* object, the agent in its instance field included
NewInstance(id, type) ==
    [id |-> id, type |-> type, enhanced |-> ~IsMock(type), ready |-> TRUE]

\* null
NoInstance ==
    [id |-> 0, type |-> "", enhanced |-> FALSE, ready |-> FALSE]

\* the factory's agents map, the number of AgentInstances created so far and
\* what the last resolution returned
Factory(c, n) ==
    [cache |-> c, created |-> n, agent |-> NoInstance]

\* the cached instance is returned
CacheHit(f, key, forceRecreate) ==
    /\ ~forceRecreate
    /\ key \in DOMAIN f.cache
    /\ f.cache[key].ready

\* this.agents.set(cacheKey, agentInstance) with a new instance
CachePut(f, key, type) ==
    LET agent == NewInstance(f.created + 1, type) IN
    [cache |-> [k \in DOMAIN f.cache \cup {key} |->
                    IF k = key THEN agent ELSE f.cache[k]],
     created |-> f.created + 1,
     agent |-> agent]

\* getAgent up to its fallback: agent is the returned instance, NoInstance
\* when the creation failed
GetAgentDirect(f, type, page, hostOnSquare, forceRecreate, builds) ==
    LET key == CacheKey(type, page) IN
    IF CacheHit(f, key, forceRecreate) THEN [f EXCEPT !.agent = f.cache[key]]
    ELSE IF Creates(type, page, hostOnSquare, builds) THEN CachePut(f, key, type)
    ELSE [f EXCEPT !.agent = NoInstance]

\* mutant: getAgent never looks into the cache
GetAgentUncached(f, type, page, hostOnSquare, forceRecreate, builds) ==
    LET direct == GetAgentDirect(f, type, page, hostOnSquare, TRUE, builds) IN
    IF direct.agent # NoInstance \/ IsMock(type) THEN direct
    ELSE GetAgentDirect(f, MockOf(type), page, hostOnSquare, TRUE, builds)

\* mutant: getAgent without the fallback to the mock
GetAgentNoFallback(f, type, page, hostOnSquare, forceRecreate, builds) ==
    GetAgentDirect(f, type, page, hostOnSquare, forceRecreate, builds)

\* AgentFactory.getAgent(type, forceRecreate)
GetAgent(f, type, page, hostOnSquare, forceRecreate, builds) ==
    LET direct == GetAgentDirect(f, type, page, hostOnSquare, forceRecreate, builds) IN
    IF direct.agent # NoInstance \/ IsMock(type) THEN direct
    ELSE GetAgentDirect(f, MockOf(type), page, hostOnSquare, FALSE, builds)

\* mutant: updateContext evicts nothing
EvictedNone(c, page) ==
    {}

\* the keys updateContext evicts
Evicted(c, page) ==
    { key \in DOMAIN c : ~Includes(KeyText(key), Words(page)) }

\* mutant: the default branch falls through to the SEO agent
RouteWithoutDefault(task) ==
    CASE task \in {"navigate", "navigation"} -> <<"navigation", "navigate">>
      [] task = "search" -> <<"navigation", "search">>
      [] task = "catalog-sync" -> <<"catalog", "sync">>
      [] task = "inventory-update" -> <<"catalog", "inventory">>
      [] task = "seo-validate" -> <<"seo", "validate">>
      [] OTHER -> <<"seo", "optimize">>

\* the operation name a task type is routed under and the agent type it goes
\* to, by routeTaskToEnhancedAgent; <<"", "">> is the default branch
Route(task) ==
    CASE task \in {"seo-update", "seo-optimize"} -> <<"seo", "optimize">>
      [] task = "seo-validate" -> <<"seo", "validate">>
      [] task \in {"navigate", "navigation"} -> <<"navigation", "navigate">>
      [] task = "search" -> <<"navigation", "search">>
      [] task = "catalog-sync" -> <<"catalog", "sync">>
      [] task = "inventory-update" -> <<"catalog", "inventory">>
      [] OTHER -> <<"", "">>

\* AgentTask.type; the last seven have no case in routeTaskToEnhancedAgent
TaskTypes ==
    {"seo-update", "seo-optimize", "seo-validate", "navigate", "navigation",
     "search", "catalog-sync", "inventory-update",
     "seo-bulk-update", "seo-extract", "validate-page", "extract-results",
     "pricing-update", "extract-catalog", "workflow"}

\* the method executeSEOOperation / executeNavigationOperation /
\* executeCatalogOperation calls on the agent for an operation name
DispatcherMethod(agentType, operation) ==
    CASE agentType = "seo" /\ operation = "optimize" -> "optimizeSEO"
      [] agentType = "seo" /\ operation = "validate" -> "validateSEOFields"
      [] agentType = "seo" /\ operation = "bulk-update" -> "bulkUpdateSEO"
      [] agentType = "seo" /\ operation = "extract" -> "extractSEOData"
      [] agentType = "navigation" /\ operation = "navigate" -> "navigateToPage"
      [] agentType = "navigation" /\ operation = "search" -> "performSearch"
      [] agentType = "navigation" /\ operation = "validate" -> "validatePageLoad"
      [] agentType = "navigation" /\ operation = "extract-results"
            -> "extractSearchResults"
      [] agentType = "catalog" /\ operation = "sync" -> "synchronizeCatalog"
      [] agentType = "catalog" /\ operation = "inventory" -> "updateInventory"
      [] agentType = "catalog" /\ operation = "pricing" -> "updatePricing"
      [] agentType = "catalog" /\ operation = "extract" -> "extractCatalogData"

\* the operation names each execute...Operation has a case for
OperationsOf(agentType) ==
    CASE agentType = "seo" -> SEOOperations
      [] agentType = "navigation" -> NavigationOperations
      [] agentType = "catalog" -> CatalogOperations

\* the method processItem calls on the agent for a bulk operation type
BulkMethod(bulkType) ==
    CASE bulkType = "seo-bulk-update" -> "handleSEOUpdate"
      [] bulkType = "catalog-bulk-sync" -> "synchronizeCatalog"
      [] bulkType = "inventory-bulk-update" -> "updateInventory"
      [] bulkType = "pricing-bulk-update" -> "updatePricing"

\* the methods of DOMAgent
DOMAgentMethods ==
    {"initialize", "executeTask", "executeTaskInternal", "buildTools",
     "updateContext", "getCapabilities", "isReady", "destroy", "log", "logError"}

\* the methods of MockAgent
MockAgentMethods ==
    {"executeTask", "destroy"}

\* the methods an object of SquareSEOAgentEnhanced has
SquareSEOAgentEnhancedMethods ==
    DOMAgentMethods \cup
    {"fillSEOForm", "fillTags", "validatePageContext", "saveSEOChanges",
     "generateOptimizedSEO", "optimizeTitle", "optimizeDescription",
     "generateTags", "generateMetaTitle", "generateMetaDescription",
     "generateUrlSlug", "captureScreenshot", "handleSEOUpdate"}

\* the methods an object of SquareNavigationAgentEnhanced has
SquareNavigationAgentEnhancedMethods ==
    DOMAgentMethods \cup
    {"navigateToUrl", "navigateToItem", "navigateToCatalog",
     "navigateToDashboard", "performSearch", "navigateUsingMenu",
     "waitForSquarePageReady", "validateCurrentPage", "validateItemPage",
     "detectCurrentPageType", "extractSearchResults", "handleNavigationTask"}

\* the methods SquareCatalogAgentEnhanced declares
SquareCatalogAgentEnhancedMethods ==
    {"synchronizeCatalog", "updateInventory", "updatePricing",
     "extractCatalogData", "processCatalogBatch", "searchForItem",
     "updateCatalogItem", "updateItemQuantity", "updateItemPrice",
     "updateItemPriceField", "updateItemQuantityField", "saveItem",
     "extractItemsData", "extractSingleItemData", "navigateBack",
     "generateItemId", "navigateToPage"}

\* the methods of the mock agents
MockSEOAgentMethods ==
    MockAgentMethods \cup
    {"optimizeSEO", "validateSEOFields", "bulkUpdateSEO", "extractSEOData"}

MockNavigationAgentMethods ==
    MockAgentMethods \cup
    {"navigateToPage", "performSearch", "validatePageLoad", "extractSearchResults"}

MockCatalogAgentMethods ==
    MockAgentMethods \cup
    {"synchronizeCatalog", "updateInventory", "updatePricing", "extractCatalogData"}

\* the methods that can be called on AgentInstance.instance
Methods(type) ==
    CASE type = "seo" -> SquareSEOAgentEnhancedMethods
      [] type = "navigation" -> SquareNavigationAgentEnhancedMethods
      [] type = "catalog" -> SquareCatalogAgentEnhancedMethods
      [] type = "mock-seo" -> MockSEOAgentMethods
      [] type = "mock-navigation" -> MockNavigationAgentMethods
      [] type = "mock-catalog" -> MockCatalogAgentMethods

\* the error of the result when the coordinator holds no agent of the type
NotAvailableError(agentType) ==
    CASE agentType = "seo" -> "Enhanced SEO agent not available for current page"
      [] agentType = "navigation" -> "Enhanced Navigation agent not available"
      [] agentType = "catalog" -> "Enhanced Catalog agent not available"

\* the message of the TypeError a call of a missing method throws
NotAFunction == "is not a function"

\* no call was made yet
NoCall ==
    [op |-> "", type |-> "", page |-> "", forceRecreate |-> FALSE,
     builds |-> "", agent |-> NoInstance, task |-> "",
     method |-> "", threw |-> FALSE, success |-> FALSE, error |-> ""]

\* this.context.page.pageType as the factory reads it
FactoryPage ==
    IF factoryContext = "coordinator" THEN pageType ELSE factoryContext

\* initializeEnhancedAgents: the three types are resolved in order through
\* the factory, whose context becomes the coordinator's; builds tells per
\* type how the constructors end; a null resolution leaves the entry of the
\* type as it is
InitializeEnhancedAgents(f, held, page, hostOnSquare, builds) ==
    LET seo == GetAgent(f, "seo", page, hostOnSquare, FALSE, builds["seo"])
        nav == GetAgent(seo, "navigation", page, hostOnSquare, FALSE,
                        builds["navigation"])
        cat == GetAgent(nav, "catalog", page, hostOnSquare, FALSE,
                        builds["catalog"])
        got == [t \in AgentTypes |->
                    CASE t = "seo" -> seo.agent
                      [] t = "navigation" -> nav.agent
                      [] t = "catalog" -> cat.agent]
    IN  [cache |-> cat.cache, created |-> cat.created,
         held |-> [t \in AgentTypes |->
                      IF got[t] # NoInstance THEN got[t] ELSE held[t]]]

\* this.agents.clear()
NoAgents ==
    [t \in AgentTypes |-> NoInstance]

\* how the constructors end per agent type in one initializeEnhancedAgents:
\* alike for the three types, or failing for the SEO agent alone
BuildOutcomes ==
    { [t \in AgentTypes |-> IF t \in failing THEN builds ELSE "all"] :
        failing \in {AgentTypes, {"seo"}}, builds \in Builds }

\* AgentFactory.getInstance(context), called by other code than the
\* coordinator with a context object of its own
GetInstance(page) ==
    /\ factoryContext' = page
    /\ regCall' = [NoCall EXCEPT !.op = "getInstance", !.page = page]
    /\ UNCHANGED <<pageType, onSquare, cache, created, destroyed, heldAgents,
                   isInitialized>>
    /\ UNCHANGED <<wfVars, bulkVars>>
    /\ UNCHANGED mgrVars
    /\ UNCHANGED startVars

\* AgentFactory.getAgent(type, forceRecreate), called on the singleton
FactoryGetAgent(type, forceRecreate) ==
    /\ factoryContext # "none"
    /\ created < MaxInstances
    /\ \E builds \in Builds :
        LET r == GetAgent(Factory(cache, created), type, FactoryPage, onSquare,
                          forceRecreate, builds)
        IN  /\ cache' = r.cache
            /\ created' = r.created
            /\ regCall' = [NoCall EXCEPT !.op = "getAgent", !.type = type,
                                         !.page = FactoryPage,
                                         !.forceRecreate = forceRecreate,
                                         !.builds = builds, !.agent = r.agent]
    /\ UNCHANGED <<pageType, onSquare, factoryContext, destroyed, heldAgents,
                   isInitialized>>
    /\ UNCHANGED <<wfVars, bulkVars>>
    /\ UNCHANGED mgrVars
    /\ UNCHANGED startVars

\* AgentFactory.updateContext(newContext)
UpdateContext(page) ==
    /\ factoryContext # "none"
    /\ factoryContext' = page
    /\ LET gone == Evicted(cache, page) IN
        /\ destroyed' = destroyed \cup { cache[key].id : key \in gone }
        /\ cache' = [key \in DOMAIN cache \ gone |-> cache[key]]
    /\ regCall' = [NoCall EXCEPT !.op = "updateContext", !.page = page]
    /\ UNCHANGED <<pageType, onSquare, created, heldAgents, isInitialized>>
    /\ UNCHANGED <<wfVars, bulkVars>>
    /\ UNCHANGED mgrVars
    /\ UNCHANGED startVars

\* AgentFactory.destroy(): the release branch runs for every cached entry,
\* then the cache is cleared
FactoryDestroy ==
    /\ factoryContext # "none"
    /\ destroyed' = destroyed \cup { cache[key].id : key \in DOMAIN cache }
    /\ cache' = [key \in {} |-> NoInstance]
    /\ regCall' = [NoCall EXCEPT !.op = "destroy"]
    /\ UNCHANGED <<pageType, onSquare, factoryContext, created, heldAgents,
                   isInitialized>>
    /\ UNCHANGED <<wfVars, bulkVars>>
    /\ UNCHANGED mgrVars
    /\ UNCHANGED startVars

\* AgentCoordinatorEnhanced.initialize
Initialize ==
    /\ ~isInitialized
    /\ \E builds \in BuildOutcomes :
        LET r == InitializeEnhancedAgents(Factory(cache, created), heldAgents,
                                          pageType, onSquare, builds)
        IN  /\ r.created <= MaxCoordinatorInstances
            /\ cache' = r.cache
            /\ created' = r.created
            /\ heldAgents' = r.held
    /\ factoryContext' = "coordinator"
    /\ isInitialized' = TRUE
    /\ regCall' = [NoCall EXCEPT !.op = "initialize", !.page = pageType]
    /\ UNCHANGED <<pageType, onSquare, destroyed>>
    /\ UNCHANGED <<wfVars, bulkVars>>
    /\ UNCHANGED mgrVars
    /\ UNCHANGED startVars

\* handlePageContextChange(newPageContext), the callback startPageMonitoring
\* registers with the page detection service
HandlePageContextChange(page) ==
    /\ isInitialized
    /\ pageType' = page
    /\ IF page # pageType
       THEN /\ \E builds \in BuildOutcomes :
                LET r == InitializeEnhancedAgents(Factory(cache, created),
                                                  NoAgents, page, onSquare, builds)
                IN  /\ r.created <= MaxCoordinatorInstances
                    /\ cache' = r.cache
                    /\ created' = r.created
                    /\ heldAgents' = r.held
            /\ factoryContext' = "coordinator"
       ELSE UNCHANGED <<cache, created, heldAgents, factoryContext>>
    /\ regCall' = [NoCall EXCEPT !.op = "handlePageContextChange", !.page = page]
    /\ UNCHANGED <<onSquare, destroyed, isInitialized>>
    /\ UNCHANGED <<wfVars, bulkVars>>
    /\ UNCHANGED mgrVars
    /\ UNCHANGED startVars

\* the ways a called agent method ends
AgentOutcomes == {"ok", "fail", "throw"}

\* routeTaskToEnhancedAgent on the agents the coordinator holds: what
\* executeTask hands back
RouteTask(task, held, outcome) ==
    LET agentType == Route(task)[1]
        method == DispatcherMethod(agentType, Route(task)[2])
        call == [NoCall EXCEPT !.op = "executeTask", !.task = task]
    IN  IF agentType = ""
        THEN [call EXCEPT !.error = "Unknown task type"]
        ELSE IF held[agentType] = NoInstance
        THEN [call EXCEPT !.type = agentType, !.error = NotAvailableError(agentType)]
        ELSE IF method \notin Methods(held[agentType].type)
        THEN [call EXCEPT !.type = agentType, !.agent = held[agentType],
                          !.method = method, !.threw = TRUE,
                          !.error = NotAFunction]
        ELSE [call EXCEPT !.type = agentType, !.agent = held[agentType],
                          !.method = method,
                          !.threw = (outcome = "throw"),
                          !.success = (outcome = "ok"),
                          !.error = CASE outcome = "ok" -> ""
                                      [] outcome = "fail" -> "agent error"
                                      [] outcome = "throw" -> "timeout"]

\* AgentCoordinatorEnhanced.executeTask(task)
ExecuteTask(task) ==
    /\ \E builds \in IF isInitialized THEN {[t \in AgentTypes |-> "all"]}
                                      ELSE BuildOutcomes,
          outcome \in AgentOutcomes :
        LET r == IF isInitialized
                 THEN [cache |-> cache, created |-> created, held |-> heldAgents]
                 ELSE InitializeEnhancedAgents(Factory(cache, created), heldAgents,
                                               pageType, onSquare, builds)
        IN  /\ r.created <= MaxCoordinatorInstances
            /\ cache' = r.cache
            /\ created' = r.created
            /\ heldAgents' = r.held
            /\ regCall' = [RouteTask(task, r.held, outcome) EXCEPT !.page = pageType]
    /\ factoryContext' = IF isInitialized THEN factoryContext ELSE "coordinator"
    /\ isInitialized' = TRUE
    /\ UNCHANGED <<pageType, onSquare, destroyed>>
    /\ UNCHANGED <<wfVars, bulkVars>>
    /\ UNCHANGED mgrVars
    /\ UNCHANGED startVars

\* the pages of a run: one every enhanced agent is valid for, one the SEO
\* agent is not valid for, one only the navigation agent is valid for, one no
\* enhanced agent is valid for
VisitedPages == {"item-detail", "inventory", "seo-settings", "unknown"}

\* the agent types other code than the coordinator asks the factory for
RequestedTypes == AgentTypes \cup {"mock-seo"}

\* the task types of a run: one per routed operation and one without a case
TasksOfRun ==
    {"seo-optimize", "seo-validate", "navigate", "search", "catalog-sync",
     "inventory-update", "pricing-update"}

\* the extension was loaded into a page; the factory singleton does not
\* exist yet and the coordinator was not initialized
RegInit ==
    /\ onSquare \in BOOLEAN
    /\ factoryContext = "none"
    /\ cache = [key \in {} |-> NoInstance]
    /\ created = 0
    /\ destroyed = {}
    /\ heldAgents = NoAgents
    /\ isInitialized = FALSE
    /\ regCall = NoCall

\* the calls other code than the coordinator makes on the factory
FactoryNext ==
    \/ \E page \in VisitedPages : GetInstance(page)
    \/ \E type \in RequestedTypes, forceRecreate \in BOOLEAN :
            FactoryGetAgent(type, forceRecreate)
    \/ \E page \in VisitedPages : UpdateContext(page)
    \/ FactoryDestroy

\* the calls on the coordinator and its page monitoring
CoordinatorNext ==
    \/ Initialize
    \/ \E page \in VisitedPages : HandlePageContextChange(page)
    \/ \E task \in TasksOfRun : ExecuteTask(task)

-----------------------------------------------------------------------------
(* Overlapping calls of AgentCoordinatorEnhanced.initialize *)

\* the callers of initialize, directly or through executeTask
Callers == 1..MaxCallers

\* const agentTypes = ['seo', 'navigation', 'catalog']
AgentOrder == <<"seo", "navigation", "catalog">>

\* a call of initialize: pc is its position ("idle": not yet called,
\* "resolving": suspended in initializeEnhancedAgents, "returned"), next the
\* index of the agent type its loop resolves next
IdleCaller == [pc |-> "idle", next |-> 1]

\* how often each setup step of initialize was performed
NoSetup ==
    [resolutions |-> 0, bulkManagers |-> 0, listeners |-> 0, subscriptions |-> 0,
     monitoringStarts |-> 0]

\* lines 67-74: initializeBulkOperations, setupAgentCommunication (316-322:
\* onMessage.addListener) and startPageMonitoring (443-453: onPageChange,
\* startPageMonitoring), run once by every call that gets there
SetUp(s) ==
    [s EXCEPT !.bulkManagers = @ + 1, !.listeners = @ + 1,
              !.subscriptions = @ + 1, !.monitoringStarts = @ + 1]

\* lines 58-65, 484-487: initialize is called, by executeTask when it found
\* isInitialized false or directly; it returns at once when the flag is set
\* and otherwise enters initializeEnhancedAgents up to its first await
InitializeCalled(c) ==
    /\ callers[c].pc = "idle"
    /\ IF isInitialized
       THEN /\ callers' = [callers EXCEPT ![c].pc = "returned"]
            /\ setup' = setup
       ELSE /\ callers' = [callers EXCEPT ![c].pc = "resolving"]
            /\ setup' = [setup EXCEPT !.resolutions = @ + 1]
    /\ UNCHANGED regVars
    /\ UNCHANGED <<wfVars, bulkVars, mgrVars>>

\* lines 102-112 and 67-76: one turn of the loop of initializeEnhancedAgents
\* (each getAgent call is taken as one step); after the last type initialize
\* goes on without suspending: the setup steps, then isInitialized = true
AgentResolved(c) ==
    /\ callers[c].pc = "resolving"
    /\ \E builds \in Builds :
        LET type == AgentOrder[callers[c].next]
            r == GetAgent(Factory(cache, created), type, pageType, onSquare,
                          FALSE, builds)
        IN  /\ r.created <= MaxCoordinatorInstances
            /\ cache' = r.cache
            /\ created' = r.created
            /\ heldAgents' = IF r.agent # NoInstance
                             THEN [heldAgents EXCEPT ![type] = r.agent]
                             ELSE heldAgents
    /\ factoryContext' = "coordinator"
    /\ IF callers[c].next < Len(AgentOrder)
       THEN /\ callers' = [callers EXCEPT ![c].next = @ + 1]
            /\ UNCHANGED <<setup, isInitialized>>
       ELSE /\ callers' = [callers EXCEPT ![c].pc = "returned"]
            /\ setup' = SetUp(setup)
            /\ isInitialized' = TRUE
    /\ regCall' = [NoCall EXCEPT !.op = "initialize", !.page = pageType]
    /\ UNCHANGED <<pageType, onSquare, destroyed>>
    /\ UNCHANGED <<wfVars, bulkVars, mgrVars>>

\* no call of initialize was made yet
StartupInit ==
    /\ callers = [c \in Callers |-> IdleCaller]
    /\ setup = NoSetup

StartupNext ==
    \/ \E c \in Callers : InitializeCalled(c)
    \/ \E c \in Callers : AgentResolved(c)

-----------------------------------------------------------------------------
(* Specifications: one run of a workflow, one run of a bulk operation,
   the calls on the agent registry *)

\* no workflow is running
WfIdle ==
    /\ steps = <<>>
    /\ agents = AgentTypes
    /\ wfPc = "done"
    /\ stepIdx = 1
    /\ halted = FALSE
    /\ results = <<>>
    /\ stepResults = [n \in {} |-> NoResult]
    /\ pending = NoResult
    /\ invoked = <<>>
    /\ thrown = ""
    /\ wfReturn = NoReturn

\* no bulk operation exists
BulkIdle ==
    /\ config = [nItems |-> 0, batchSize |-> 0, delayBetweenBatches |-> 0,
                 hasOnProgress |-> FALSE, target |-> <<"catalog-bulk-sync", "catalog">>]
    /\ status = NewStatus(config)
    /\ cancelled = FALSE
    /\ opResults = <<>>
    /\ active = FALSE
    /\ bulkPc = "returned"
    /\ batchStart = 0
    /\ promises = <<>>
    /\ recIdx = 0
    /\ progress = <<>>
    /\ observed = <<>>
    /\ batches = <<>>
    /\ cancelReq = NoCancel
    /\ fault = ""
    /\ bulkReturn = NoBulkReturn

\* no call was made on the factory or the coordinator
RegIdle ==
    /\ pageType = "unknown"
    /\ onSquare = FALSE
    /\ factoryContext = "none"
    /\ cache = [key \in {} |-> NoInstance]
    /\ created = 0
    /\ destroyed = {}
    /\ heldAgents = NoAgents
    /\ isInitialized = FALSE
    /\ regCall = NoCall

Init == WfInit /\ BulkIdle /\ RegIdle /\ ManagerInit /\ StartupInit

Next == WfNext

Spec == Init /\ [][Next]_vars

\* the workflow runner with its steps taken whenever one is possible: the loop
\* is synchronous between awaits and every awaited agent call settles
FairSpec == Init /\ [][Next]_vars /\ WF_vars(Next)

BulkSpecInit == WfIdle /\ BulkInit /\ RegIdle /\ ManagerInit /\ StartupInit

BulkSpec == BulkSpecInit /\ [][BulkNext]_vars

\* the turns of one executeBulkOperation call: what the run does by itself
\* once the agent calls it awaits settle
RunnerNext ==
    \/ Execute
    \/ ItemSettles
    \/ BatchSettled
    \/ RecordItem
    \/ DelayElapses
    \/ ExecuteBulkOperationEnds

\* the run and the one call of other code that reaches into it
BulkFairNext ==
    \/ RunnerNext
    \/ CancelOperation

\* a bulk run whose agent calls all settle and whose timers fire; a
\* cancelOperation may or may not come (the status snapshots other code
\* takes are copies and are left out)
BulkFairSpec == BulkSpecInit /\ [][BulkFairNext]_vars /\ WF_vars(RunnerNext)

\* the coordinator, which these runs leave alone, sits on a page
FactorySpecInit ==
    WfIdle /\ BulkIdle /\ RegInit /\ pageType = "unknown" /\ ManagerInit /\ StartupInit

FactorySpec == FactorySpecInit /\ [][FactoryNext]_vars

\* the coordinator was constructed with the context of a page
CoordinatorSpecInit ==
    WfIdle /\ BulkIdle /\ RegInit /\ pageType \in VisitedPages /\ ManagerInit /\ StartupInit

CoordinatorSpec == CoordinatorSpecInit /\ [][CoordinatorNext]_vars

\* a page that starts up to two bulk operations on one manager
ManagerSpecInit == WfIdle /\ BulkIdle /\ RegIdle /\ ManagerInit /\ StartupInit

ManagerSpec == ManagerSpecInit /\ [][ManagerNext]_vars

\* a page whose scripts call the new coordinator several times at once
StartupSpecInit ==
    WfIdle /\ BulkIdle /\ RegInit /\ pageType \in VisitedPages /\ ManagerInit
        /\ StartupInit

StartupSpec == StartupSpecInit /\ [][StartupNext]_vars

-----------------------------------------------------------------------------
(* Properties of executeEnhancedWorkflow *)

\* the step a recorded result belongs to
StepOfResult(r) == steps[r.step]

\* the recorded result is a failure of a critical step
CriticalFailure(r) == ~r.success /\ StepOfResult(r).critical

\* the steps for which an agent operation was called
InvokedSteps == { invoked[i] : i \in 1..Len(invoked) }

\* the results are those of the first Len(rs) declared steps, in order
InDeclarationOrder(rs) == \A i \in 1..Len(rs) : rs[i].step = i

\* the number of successful results, counted without SuccessCount
NumSuccessful(rs) == Cardinality({ i \in 1..Len(rs) : rs[i].success })

\* every dependency the step at the loop names has a recorded successful result
CurrentDependenciesRecorded ==
    \A dep \in steps[stepIdx].dependsOn :
        /\ dep \in DOMAIN stepResults
        /\ stepResults[dep].success
        /\ \E i \in 1..Len(results) :
            steps[i].operation = dep /\ results[i] = stepResults[dep]

\* C1: a step that declares dependsOn is dispatched only if every named
\* dependency already has a recorded result with success = TRUE; otherwise the
\* step is recorded as a failed result and no agent operation is called for it.
C1_DependencyGate ==
    [][ (AtStep /\ steps[stepIdx].hasDependsOn) =>
          IF CurrentDependenciesRecorded
          THEN wfPc' = "awaiting" /\ results' = results
          ELSE /\ wfPc' # "awaiting"
               /\ invoked' = invoked
               /\ Len(results') = Len(results) + 1
               /\ ~results'[Len(results')].success
               /\ results'[Len(results')].step = stepIdx
               /\ results'[Len(results')].error = "Dependencies not met" ]_vars

\* a step with a met dependency is dispatched after a step with two
\* dependencies, one met and one missing, was failed
C1_Witness ==
    /\ wfPc = "awaiting"
    /\ stepIdx = 3
    /\ steps[3].hasDependsOn
    /\ 3 \in InvokedSteps
    /\ results[1].success
    /\ Cardinality(steps[2].dependsOn) = 2
    /\ results[2].error = "Dependencies not met"
    /\ 2 \notin InvokedSteps

\* C2: once a critical step fails no later step is dispatched or recorded, the
\* failed result is the last one; [stepA(critical, fails), stepB(dependsOn
\* stepA)] ends with results = [fail(stepA)], stepB not dispatched, success FALSE.
C2_CriticalFailureHalts ==
    /\ \A i \in 1..Len(results) :
        CriticalFailure(results[i]) =>
            /\ i = Len(results)
            /\ wfPc # "awaiting"
            /\ \A k \in InvokedSteps : k <= results[i].step
    /\ ( /\ wfReturn.returned
         /\ Len(steps) = 2
         /\ steps[1].critical
         /\ steps[2].hasDependsOn
         /\ steps[1].operation \in steps[2].dependsOn
         /\ Len(results) >= 1
         /\ ~results[1].success )
       => /\ wfReturn.results = <<results[1]>>
          /\ 2 \notin InvokedSteps
          /\ wfReturn.success = FALSE

\* the run returned after a critical step failed with steps left
C2_Witness ==
    /\ wfReturn.returned
    /\ Len(results) >= 1
    /\ CriticalFailure(results[Len(results)])
    /\ Len(results) < Len(steps)
    /\ steps[Len(results) + 1].hasDependsOn

\* C3: the failure of a step that is not critical halts nothing; when no step
\* is critical and nothing is thrown every declared step gets exactly one result.
C3_NonCriticalFailureContinues ==
    /\ ( /\ wfPc = "loop"
         /\ Len(results) >= 1
         /\ ~results[Len(results)].success
         /\ ~StepOfResult(results[Len(results)]).critical )
       => ~halted /\ stepIdx = results[Len(results)].step + 1
    /\ ( /\ wfReturn.returned
         /\ thrown = ""
         /\ \A i \in 1..Len(steps) : ~steps[i].critical )
       => /\ Len(wfReturn.results) = Len(steps)
          /\ InDeclarationOrder(wfReturn.results)

\* a run without critical steps returned after a failure that was not the last step
C3_Witness ==
    /\ wfReturn.returned
    /\ thrown = ""
    /\ \A i \in 1..Len(steps) : ~steps[i].critical
    /\ Len(steps) >= 2
    /\ ~results[1].success
    /\ Len(results) = Len(steps)

\* C4: steps are attempted in declared order: the agent operation of a step is
\* called only when every earlier step has its result, and the i-th result
\* belongs to the i-th declared step.
C4_DeclaredOrder ==
    /\ InDeclarationOrder(results)
    /\ \A i, j \in 1..Len(invoked) : i < j => invoked[i] < invoked[j]
    /\ \A k \in InvokedSteps : k <= Len(results) + 1
    /\ wfPc = "awaiting" => Len(results) = stepIdx - 1

\* three steps were attempted, the second and the third were dispatched
C4_Witness ==
    /\ Len(results) = 3
    /\ {2, 3} \subseteq InvokedSteps

\* C5 as stated: the returned success flag equals (successful results > 0)
\* for every combination of agent outcomes.
C5_SuccessIsAnySuccess ==
    wfReturn.returned =>
        (wfReturn.success = (NumSuccessful(wfReturn.results) > 0))

\* C5 amended: the flag equals (successful results > 0) when no agent operation
\* throws; when one throws the flag is FALSE whatever was recorded before.
C5_SuccessIsAnySuccessUnlessThrown ==
    wfReturn.returned =>
        IF thrown = ""
        THEN wfReturn.success = (NumSuccessful(wfReturn.results) > 0)
        ELSE wfReturn.success = FALSE

\* a run returned success with more failed than successful results
C5_Witness ==
    /\ wfReturn.returned
    /\ thrown = ""
    /\ wfReturn.success
    /\ NumSuccessful(wfReturn.results) = 1
    /\ Len(wfReturn.results) = 3

\* the workflow declares no dependsOn
NoDependsOn == \A i \in 1..Len(steps) : ~steps[i].hasDependsOn

DependsOnEarlierIds ==
    /\ \A i \in 1..Len(steps) :
        steps[i].hasDependsOn =>
            steps[i].dependsOn \subseteq { steps[j].id : j \in 1..(i - 1) }
    /\ \E i \in 1..Len(steps) : steps[i].hasDependsOn

\* every agent operation that was called returned success
EveryAgentOperationSucceeded ==
    /\ thrown = ""
    /\ \A i \in 1..Len(results) : results[i].step \in InvokedSteps => results[i].success

\* C7: when every agent operation succeeds and each dependsOn lists the id of an
\* earlier step, every step is dispatched and the workflow returns success with
\* one successful result per declared step.
C7_IdDependenciesMet ==
    (wfReturn.returned /\ DependsOnEarlierIds /\ EveryAgentOperationSucceeded) =>
        /\ wfReturn.success
        /\ Len(wfReturn.results) = Len(steps)
        /\ \A i \in 1..Len(wfReturn.results) : wfReturn.results[i].success
        /\ InvokedSteps = 1..Len(steps)

\* C8: when an agent operation throws, the run returns (it does not throw),
\* stops processing steps, and returns success FALSE with the exception's
\* message and the results recorded before the exception.
C8_ThrowIsCaught ==
    thrown # "" =>
        /\ wfPc = "done"
        /\ wfReturn.returned
        /\ wfReturn.success = FALSE
        /\ wfReturn.outcome = "failed"
        /\ wfReturn.error = thrown
        /\ wfReturn.results = results
        /\ Len(results) = stepIdx - 1
        /\ InvokedSteps \subseteq 1..stepIdx

\* the second step threw after the first had succeeded, a third step was left
C8_Witness ==
    /\ thrown # ""
    /\ Len(results) = 1
    /\ results[1].success
    /\ Len(steps) = 3

-----------------------------------------------------------------------------
(* Properties of BulkOperation *)

\* the counters of a status snapshot add up
CountersAddUp(s) == s.successCount + s.failureCount = s.processedItems

\* the number of entries of rs with the given success flag, counted from the list
NumWithSuccess(rs, flag) == Cardinality({ k \in 1..Len(rs) : rs[k].success = flag })

\* C9: successCount + failureCount = processedItems in every snapshot handed to
\* onProgress, in every snapshot getStatus / getActiveOperations returns while
\* the run is in flight, and in the final result.
C9_CountersAddUp ==
    /\ \A k \in 1..Len(progress) : CountersAddUp(progress[k])
    /\ \A k \in 1..Len(observed) : CountersAddUp(observed[k])
    /\ (Suspended /\ active) => CountersAddUp(GetStatusCopy(status))
    /\ bulkReturn.returned =>
        /\ bulkReturn.successCount + bulkReturn.failureCount = status.processedItems
        /\ bulkReturn.successCount = NumWithSuccess(bulkReturn.results, TRUE)
        /\ bulkReturn.failureCount = NumWithSuccess(bulkReturn.results, FALSE)

\* execute returned after onProgress saw successes and failures, among them a
\* rejected item, and getActiveOperations was called while the operation was
\* still registered
C9_Witness ==
    /\ bulkReturn.returned
    /\ Len(progress) >= 3
    /\ progress[Len(progress)].successCount >= 1
    /\ \E k \in 1..Len(opResults) : opResults[k].error = "agent threw"
    /\ \E k \in 1..Len(opResults) : opResults[k].error = "agent error"
    /\ Len(observed) = 1
    /\ observed[1].processedItems >= 1

\* C10: processedItems <= totalItems in every state, and a run that finishes
\* without cancellation and without an orchestration fault (status completed)
\* has processedItems = totalItems.
C10_ProcessedWithinTotal ==
    /\ status.processedItems <= status.totalItems
    /\ \A k \in 1..Len(progress) : progress[k].processedItems <= progress[k].totalItems
    /\ status.totalItems = config.nItems
    /\ status.status = "completed" => status.processedItems = status.totalItems
    /\ (bulkPc = "returned" /\ ~cancelled) =>
        /\ status.status = "completed"
        /\ Len(bulkReturn.results) = config.nItems

\* a run of two batches of two items completed, with failed items
C10_Witness ==
    /\ bulkPc = "returned"
    /\ status.status = "completed"
    /\ config.nItems = 4
    /\ BatchSize(config) = 2
    /\ status.processedItems = 4
    /\ status.failureCount >= 1

\* the batch size a configuration asks for, 5 when it names none
AskedBatchSize == IF config.batchSize = 0 THEN 5 ELSE config.batchSize

\* the number of batches of b items that n items fill, the last one maybe partly
NumBatches(n, b) == (n + b - 1) \div b

\* the number of launched batches that hold the item
TimesLaunched(item) ==
    Cardinality({ k \in 1..Len(batches) :
                    \E j \in 1..Len(batches[k]) : batches[k][j] = item })

\* no cancel was requested before execute ended
Uncancelled == cancelReq.point \in {"", "returned", "threw"}

\* C11: the k-th launched batch holds the items (k-1)*b+1 .. k*b of the list in
\* order (b = batchSize, 5 when omitted), cut off at the end of the list; a run
\* that returns uncancelled has launched exactly ceil(n/b) batches, every one
\* but the last of b items, the last of n mod b items (b when that is 0), and
\* every item is in exactly one batch.
C11_ContiguousBatches ==
    LET n == config.nItems
        b == AskedBatchSize
    IN
    /\ \A k \in 1..Len(batches) :
        /\ Len(batches[k]) >= 1
        /\ \A j \in 1..Len(batches[k]) : batches[k][j] = Items(config)[(k - 1) * b + j]
    /\ \A item \in 1..n : TimesLaunched(item) <= 1
    /\ (bulkPc = "returned" /\ Uncancelled) =>
        /\ Len(batches) = NumBatches(n, b)
        /\ \A k \in 1..(Len(batches) - 1) : Len(batches[k]) = b
        /\ Len(batches) >= 1 =>
            Len(batches[Len(batches)]) = (IF n % b = 0 THEN b ELSE n % b)
        /\ \A item \in 1..n : TimesLaunched(item) = 1

\* a run of six items without a batchSize returned after a batch of five and
\* a batch of one
C11_Witness ==
    /\ bulkPc = "returned"
    /\ Uncancelled
    /\ config.batchSize = 0
    /\ config.nItems = 6
    /\ Len(batches) = 2
    /\ Len(batches[1]) = 5
    /\ batches[2] = <<6>>

\* cancel was requested while a batch was in flight, while its results were
\* recorded, or during the delay after it
CancelledInFlight == cancelReq.point \in {"batch", "recording", "delay"}

\* the number of items in the first k batches
ThroughBatch(k) ==
    IF k * AskedBatchSize < config.nItems THEN k * AskedBatchSize ELSE config.nItems

\* C12: after a cancel requested while batch k is in flight or during the delay
\* after it, no batch after k is launched, and when execute ends every item of
\* batch k is processed and counted and the status is 'cancelled'.
C12_CancelStopsAfterCurrentBatch ==
    CancelledInFlight =>
        /\ Len(batches) = cancelReq.batch
        /\ bulkPc \in {"returned", "threw"} =>
            /\ status.status = "cancelled"
            /\ status.processedItems = ThroughBatch(cancelReq.batch)
            /\ Len(opResults) = ThroughBatch(cancelReq.batch)

\* C12 (amended): after a cancel requested while batch k is in flight or during
\* the delay after it, no batch after k is launched; when execute returns every
\* item of batch k is processed and counted and the status is 'cancelled'; when
\* instead onProgress throws while batch k is recorded, execute throws with
\* status 'failed' and the rest of batch k is left uncounted.
C12_CancelStopsAfterCurrentBatchUnlessFault ==
    CancelledInFlight =>
        /\ Len(batches) = cancelReq.batch
        /\ bulkPc = "returned" =>
            /\ status.status = "cancelled"
            /\ status.processedItems = ThroughBatch(cancelReq.batch)
            /\ Len(opResults) = ThroughBatch(cancelReq.batch)
        /\ bulkPc = "threw" =>
            /\ fault = CallbackError
            /\ status.status = "failed"
            /\ status.processedItems <= ThroughBatch(cancelReq.batch)
            /\ status.processedItems > ThroughBatch(cancelReq.batch - 1)

\* cancel came while the first of several batches was in flight; the run
\* returned cancelled with exactly that batch counted, one item of it a success
C12_Witness ==
    /\ bulkPc = "returned"
    /\ cancelReq = [point |-> "batch", batch |-> 1]
    /\ config.nItems > BatchSize(config)
    /\ BatchSize(config) >= 2
    /\ status.status = "cancelled"
    /\ status.processedItems = BatchSize(config)
    /\ status.successCount >= 1

\* C13: when execute launches a batch, every agent call of the batch before it
\* has settled and is recorded; the calls of one batch are in flight together.
C13_BatchAfterBatchSettled ==
    [][Len(batches') > Len(batches) =>
        /\ \A k \in DOMAIN promises : promises[k] \in Outcomes
        /\ Len(opResults') = ThroughBatch(Len(batches))
        /\ \A k \in DOMAIN promises' : promises'[k] \in {"pending", "throw"}
        /\ Len(promises') = Len(batches'[Len(batches')])]_vars

\* the second batch is in flight with two of its agent calls pending at once,
\* after a first batch of which every call settled
C13_Witness ==
    /\ bulkPc = "batch"
    /\ Len(batches) = 2
    /\ Len(opResults) = Len(batches[1])
    /\ Cardinality({ k \in DOMAIN promises : promises[k] = "pending" }) >= 2

\* the number of entries of the results list that are for the item
EntriesFor(item) ==
    Cardinality({ k \in 1..Len(opResults) : opResults[k].item = item })

\* the items of the batches launched so far
LaunchedItems ==
    UNION { { batches[k][j] : j \in 1..Len(batches[k]) } : k \in 1..Len(batches) }

NumSettled == Cardinality({ k \in DOMAIN promises : promises[k] # "pending" })

\* C15: while a batch is in flight the status counts the items of the batch
\* that have settled so far.
C15_CountedAsSettled ==
    bulkPc = "batch" =>
        /\ GetStatusCopy(status).processedItems = batchStart + NumSettled
        /\ Len(opResults) = batchStart + NumSettled

\* C15 (amended): the items of a batch are counted, their results appended and
\* onProgress invoked for them one by one in batch order only after every item
\* of the batch has settled; while the batch is in flight the status counts
\* none of its items, settled or not.
C15_CountedAfterBatchSettled ==
    /\ bulkPc = "batch" =>
        /\ GetStatusCopy(status).processedItems = batchStart
        /\ Len(opResults) = batchStart
        /\ config.hasOnProgress => Len(progress) = batchStart
    /\ bulkPc = "recording" =>
        /\ NumSettled = Len(promises)
        /\ status.processedItems = batchStart + recIdx
        /\ Len(opResults) = batchStart + recIdx
        /\ config.hasOnProgress => Len(progress) = batchStart + recIdx
    /\ \A k \in 1..Len(progress) :
        /\ progress[k].processedItems = k
        /\ progress[k].successCount = NumWithSuccess(SubSeq(opResults, 1, k), TRUE)
        /\ progress[k].failureCount = NumWithSuccess(SubSeq(opResults, 1, k), FALSE)
    /\ \A k \in 1..Len(observed) :
        observed[k].status = "running" =>
            observed[k].processedItems \in { ThroughBatch(m) : m \in 0..Len(batches) }

\* getActiveOperations was called while one call of the second batch had
\* succeeded and another was pending: the snapshot counts the first batch only
C15_Witness ==
    /\ bulkPc = "batch"
    /\ batchStart >= 1
    /\ \E k \in DOMAIN promises : promises[k] = "ok"
    /\ \E k \in DOMAIN promises : promises[k] = "pending"
    /\ observed = <<GetStatusCopy(status)>>
    /\ observed[1].processedItems = batchStart

\* C16: the status objects handed to onProgress and returned by getStatus /
\* getActiveOperations are copies: whatever a recipient writes to one, the live
\* status keeps counting the recorded items, the snapshots handed out later
\* carry those counts, and the final result carries them too.
C16_SnapshotsAreCopies ==
    /\ status.processedItems = Len(opResults)
    /\ status.successCount = NumWithSuccess(opResults, TRUE)
    /\ status.failureCount = NumWithSuccess(opResults, FALSE)
    /\ bulkPc # "created" => status.status # "pending"
    /\ \A k \in 1..Len(progress) :
        /\ progress[k].processedItems = k
        /\ progress[k].successCount = NumWithSuccess(SubSeq(opResults, 1, k), TRUE)
        /\ progress[k].status = "running"
    /\ bulkReturn.returned =>
        /\ bulkReturn.successCount = NumWithSuccess(opResults, TRUE)
        /\ bulkReturn.failureCount = NumWithSuccess(opResults, FALSE)
        /\ bulkReturn.success = (NumWithSuccess(opResults, TRUE) > 0)
        /\ status.status \in {"completed", "cancelled"}

\* between two batches a caller overwrote the snapshot it got from
\* getActiveOperations, after onProgress had been handed two snapshots; the
\* live status has its counts
C16_Witness ==
    /\ bulkPc = "delay"
    /\ observed # <<>>
    /\ observed[1] = Scribble(observed[1])
    /\ status.status = "running"
    /\ status.processedItems >= 2
    /\ status.successCount >= 1
    /\ Len(progress) >= 2

\* C17: no mix of items that throw or return success false makes execute throw
\* or end 'failed': execute throws only when the onProgress callback threw;
\* a run that returns ends 'completed' or 'cancelled', and every item that
\* failed has a success-false entry with its error in results - also when
\* every item fails because the agent type is not registered or the bulk type
\* is unknown.
C17_ItemFailuresNeverFailTheRun ==
    /\ (bulkPc = "threw" \/ status.status = "failed" \/ bulkReturn.threw) =>
        /\ config.hasOnProgress
        /\ fault = CallbackError
    /\ bulkPc = "returned" =>
        /\ bulkReturn.returned
        /\ ~bulkReturn.threw
        /\ status.status \in {"completed", "cancelled"}
        /\ bulkReturn.results = opResults
    /\ \A k \in 1..Len(opResults) :
        /\ opResults[k].item = k
        /\ opResults[k].success <=> opResults[k].error = ""
    /\ status.failureCount = NumWithSuccess(opResults, FALSE)
    /\ ItemRoutingError(config, agents) # "" =>
        /\ status.successCount = 0
        /\ \A k \in 1..Len(opResults) :
            opResults[k] = MkItemResult(FALSE, ItemRoutingError(config, agents), k)

\* a run over three items for an agent type that is not registered returned
\* 'completed' with three failure entries
C17_Witness ==
    /\ bulkPc = "returned"
    /\ status.status = "completed"
    /\ config.nItems = 3
    /\ ItemRoutingError(config, agents) = "Agent not found"
    /\ bulkReturn.failureCount = 3
    /\ Len(bulkReturn.results) = 3
    /\ ~bulkReturn.success

\* C18: once an exception has escaped processBatch (the onProgress callback
\* threw), the status is 'failed' with endTime set, no batch after the one
\* being recorded is launched, and execute - and with it executeBulkOperation -
\* throws that same exception instead of returning a result.
C18_EscapedExceptionFailsTheRun ==
    fault # "" =>
        /\ bulkPc = "threw"
        /\ status.status = "failed"
        /\ status.hasEndTime
        /\ bulkReturn.threw
        /\ ~bulkReturn.returned
        /\ bulkReturn.error = fault
        /\ Len(opResults) <= ThroughBatch(Len(batches))
        /\ Len(opResults) > ThroughBatch(Len(batches) - 1)

\* onProgress threw while the first of several batches was recorded; the
\* exception has reached the caller of executeBulkOperation
C18_Witness ==
    /\ fault = CallbackError
    /\ ~active
    /\ Len(batches) = 1
    /\ config.nItems > BatchSize(config)
    /\ Len(opResults) = 2
    /\ bulkReturn.error = CallbackError

\* C19: the success flag of the result execute returns is true exactly when
\* successCount > 0, whatever failureCount is and whether or not the run was
\* cancelled.
C19_SuccessIffSomeItemSucceeded ==
    bulkReturn.returned =>
        /\ bulkReturn.success <=> bulkReturn.successCount > 0
        /\ bulkReturn.successCount = status.successCount
        /\ bulkReturn.successCount = NumWithSuccess(bulkReturn.results, TRUE)

\* a cancelled run with one success among failures returned success true
C19_Witness ==
    /\ bulkReturn.returned
    /\ status.status = "cancelled"
    /\ bulkReturn.success
    /\ bulkReturn.successCount = 1
    /\ bulkReturn.failureCount >= 2

\* the terminal values of the status field
TerminalStatuses == {"completed", "failed", "cancelled"}

\* C20: cancelOperation returns false for an unknown id and for an operation
\* whose status is completed, failed or cancelled, and returns true only for
\* an operation that is pending or running.
C20_CancelReturnsTrueOnlyWhileRunning ==
    OutsideCodeRuns =>
        /\ ~CancelOperationResult(UnknownId)
        /\ status.status \in TerminalStatuses => ~CancelOperationResult(OperationId)
        /\ CancelOperationResult(OperationId) => status.status \in {"pending", "running"}

-----------------------------------------------------------------------------
(* Properties of the agent registry *)

\* a step from one getAgent(type) call that returned an instance to the next
\* for the same type, both without forceRecreate; the page type cannot change
\* in between
RepeatedResolution ==
    /\ regCall.op = "getAgent"
    /\ regCall'.op = "getAgent"
    /\ regCall'.type = regCall.type
    /\ regCall'.page = regCall.page
    /\ ~regCall.forceRecreate
    /\ ~regCall'.forceRecreate
    /\ regCall.agent # NoInstance

\* C21 as stated: a repeated getAgent(type) on an unchanged page type returns
\* the identical AgentInstance and constructs none, whether the first
\* resolution gave the enhanced agent or the mock
C21_RepeatedResolutionIsIdentical ==
    [][RepeatedResolution =>
        /\ regCall'.agent = regCall.agent
        /\ created' = created]_vars

\* C21 amended: a repeated getAgent(type) on an unchanged page type returns the
\* identical AgentInstance and constructs none when the first resolution gave
\* the enhanced agent, and when it gave the mock as long as the enhanced agent
\* cannot be created on the repeat either (page check or constructor)
C21_RepeatedResolutionIsIdenticalWhileFallbackLasts ==
    [][(/\ RepeatedResolution
        /\ \/ regCall.agent.type = regCall.type
           \/ ~Creates(regCall'.type, regCall'.page, onSquare, regCall'.builds))
       =>
        /\ regCall'.agent = regCall.agent
        /\ created' = created]_vars

\* a default getAgent('catalog') handed back a cached mock while no
\* constructor would have built one: the mock of an earlier fallback on this
\* page type, since nothing else asks for mock-catalog
C21_Witness ==
    /\ regCall.op = "getAgent"
    /\ regCall.type = "catalog"
    /\ ~regCall.forceRecreate
    /\ regCall.builds = "none"
    /\ regCall.agent.type = "mock-catalog"

\* C22 as stated: when the page type the factory works with changes, every
\* instance cached for the old page type has destroy called on it and leaves
\* the cache, so that the next resolution for its type creates a new instance
C22_PageChangeDestroysAndRecreates ==
    [][(factoryContext # "none" /\ FactoryPage' # FactoryPage) =>
        \A key \in DOMAIN cache :
            key[2] = FactoryPage =>
                /\ cache[key].id \in destroyed'
                /\ key \notin DOMAIN cache']_vars

\* the step is a getAgent call for an enhanced type
ResolvesEnhancedType ==
    regCall'.op = "getAgent" /\ ~IsMock(regCall'.type)

\* the call finds a ready instance under the key of the requested type
FindsCached ==
    CacheHit(Factory(cache, created), CacheKey(regCall'.type, regCall'.page),
             regCall'.forceRecreate)

\* C23: getAgent(type) for an enhanced type returns null only when the mock
\* cannot be built; unless it returns the cached instance of the type, it
\* returns a new enhanced instance when the page passes the type's check and the
\* constructor succeeds, and the mock (enhanced = FALSE) when the check fails or
\* the constructor throws
C23_EnhancedOrMockNeverNull ==
    [][ResolvesEnhancedType =>
        LET type == regCall'.type
            valid == IsValidFor(type, regCall'.page, onSquare)
            builds == regCall'.builds
            agent == regCall'.agent
        IN  /\ builds # "none" => agent # NoInstance
            /\ FindsCached => agent = cache[CacheKey(type, regCall'.page)]
            /\ (~FindsCached /\ valid /\ builds = "all") =>
                    /\ agent = NewInstance(created + 1, type)
                    /\ agent.enhanced
            /\ (~FindsCached /\ (~valid \/ builds = "mock only")
                    /\ builds # "none") =>
                    /\ agent.type = MockOf(type)
                    /\ ~agent.enhanced
            /\ type = "seo" =>
                    (valid <=> regCall'.page \in {"item-detail", "item-edit",
                                                  "items-library"})]_vars

\* getAgent('seo') on a page of the SEO allow-list handed back the mock after
\* the constructor of the enhanced agent threw
C23_Witness ==
    /\ regCall.op = "getAgent"
    /\ regCall.type = "seo"
    /\ regCall.page = "item-detail"
    /\ regCall.builds = "mock only"
    /\ regCall.agent.type = "mock-seo"
    /\ ~regCall.agent.enhanced

\* the bulk operation types whose items go to an agent of the type
BulkTypesOf(agentType) ==
    CASE agentType = "seo" -> {"seo-bulk-update"}
      [] agentType = "catalog" ->
            {"catalog-bulk-sync", "inventory-bulk-update", "pricing-bulk-update"}
      [] OTHER -> {}

\* the methods the dispatcher and the bulk executor call on an agent of the type
CalledOn(agentType) ==
    { DispatcherMethod(agentType, operation) : operation \in OperationsOf(agentType) }
    \cup { BulkMethod(bulkType) : bulkType \in BulkTypesOf(agentType) }

\* C24 as stated: whichever instance the coordinator holds for an agent type,
\* enhanced or mock, every method the dispatcher or the bulk executor calls on
\* that type is a method of the instance
C24_SameOperationSurface ==
    \A agentType \in AgentTypes :
        heldAgents[agentType] # NoInstance =>
            CalledOn(agentType) \subseteq Methods(heldAgents[agentType].type)

\* C25: updateContext(newContext) takes out of the cache, and calls destroy on,
\* exactly the instances cached under a key of another page type than the new
\* one; the entries of the new page type stay, with the identical instance, and
\* are not destroyed
C25_UpdateContextEvictsExactlyOtherPages ==
    [][regCall'.op = "updateContext" =>
        LET page == regCall'.page
            others == { key \in DOMAIN cache : key[2] # page }
        IN  /\ DOMAIN cache' = DOMAIN cache \ others
            /\ destroyed' = destroyed \cup { cache[key].id : key \in others }
            /\ \A key \in DOMAIN cache \ others :
                    /\ cache'[key] = cache[key]
                    /\ cache[key].id \notin destroyed']_vars

\* after updateContext one of two instances is destroyed and gone from the
\* cache and the other is still cached under a key of the new page type
C25_Witness ==
    /\ regCall.op = "updateContext"
    /\ created = 2
    /\ Cardinality(destroyed) = 1
    /\ \E key \in DOMAIN cache :
            /\ key[2] = regCall.page
            /\ cache[key].id \notin destroyed

-----------------------------------------------------------------------------
(* Properties of the coordinator's task dispatch *)

\* task types routeTaskToEnhancedAgent has no case for
UnroutedTasks ==
    TaskTypes \ {"seo-update", "seo-optimize", "seo-validate", "navigate",
                 "navigation", "search", "catalog-sync", "inventory-update"}

\* the step is an executeTask call with a task type that has no case
DispatchesUnroutedTask ==
    regCall'.op = "executeTask" /\ regCall'.task \in UnroutedTasks

\* the call ended with the failed result 'Unknown task type' and no agent
\* method was called
UnknownTaskTypeResult(call) ==
    /\ ~call.threw
    /\ ~call.success
    /\ call.error = "Unknown task type"
    /\ call.agent = NoInstance
    /\ call.method = ""

\* the call left the factory and the coordinator's agent map as they were
RegistryUntouched ==
    UNCHANGED <<cache, created, destroyed, heldAgents, factoryContext>>

C27_ExecuteTaskNeverThrows ==
    regCall.op = "executeTask" => ~regCall.threw

-----------------------------------------------------------------------------
(* Properties of the routing of workflow steps *)

\* the routing failure the dispatch of the step must end in, "" if it has none
ExpectedRoutingFailure(step) ==
    IF step.agentType \notin {"seo", "navigation", "catalog"}
        THEN "Unknown agent type"
    ELSE IF step.agentType \notin agents THEN "agent not available"
    ELSE IF step.operation \notin OperationsOf(step.agentType)
        THEN CASE step.agentType = "seo" -> "Unknown SEO operation"
               [] step.agentType = "navigation" -> "Unknown navigation operation"
               [] step.agentType = "catalog" -> "Unknown catalog operation"
    ELSE ""

\* C28: a dispatched step with an unknown agentType, an operation unknown for
\* its agent type or an agent type the coordinator holds no agent for is
\* recorded with success false and the error of its routing failure, and no
\* agent operation is called for it
C28_RoutingFailuresCallNoAgent ==
    /\ \A i \in InvokedSteps : ExpectedRoutingFailure(steps[i]) = ""
    /\ \A k \in 1..Len(results) :
            LET failure == ExpectedRoutingFailure(steps[results[k].step]) IN
            (failure # "" /\ results[k].error # "Dependencies not met") =>
                /\ ~results[k].success
                /\ results[k].error = failure
                /\ results[k].step \notin InvokedSteps

\* a workflow of three steps returned after an unknown agent type and a
\* missing agent were recorded as failures and one agent operation was called,
\* for the third step
C28_Witness ==
    /\ Len(results) = 3
    /\ {"Unknown agent type", "agent not available"}
            \subseteq { results[k].error : k \in 1..Len(results) }
    /\ Len(invoked) = 1
    /\ ExpectedRoutingFailure(steps[invoked[1]]) = ""
    /\ wfReturn.returned

-----------------------------------------------------------------------------
(* Properties of the progress callback and of the delay between batches *)

\* a run with onProgress configured in which no cancel was requested and no
\* exception escaped the recording of a batch
ReportingRun ==
    config.hasOnProgress /\ Uncancelled /\ fault = ""

\* C29: in an uncancelled, fault-free run of n items with batch size b and
\* onProgress configured, the calls of onProgress come in one group per batch:
\* none for a batch while it is in flight, the group of a batch only after all
\* of its calls have settled and as many calls as the batch has items; the k-th
\* call sees processedItems = k; the run that returns has made n calls in
\* ceil(n/b) groups
C29_ProgressGroupsPerBatch ==
    ReportingRun =>
        LET launched == Len(batches) IN
        /\ \A k \in 1..Len(progress) : progress[k].processedItems = k
        /\ \A k \in 1..launched :
                ThroughBatch(k) - ThroughBatch(k - 1) = Len(batches[k])
        /\ bulkPc = "batch" => Len(progress) = ThroughBatch(launched - 1)
        /\ bulkPc = "recording" =>
                /\ NumSettled = Len(promises)
                /\ Len(progress) >= ThroughBatch(launched - 1)
                /\ Len(progress) <= ThroughBatch(launched)
        /\ bulkPc = "delay" => Len(progress) = ThroughBatch(launched)
        /\ bulkPc = "returned" =>
                /\ Len(progress) = config.nItems
                /\ launched = NumBatches(config.nItems, AskedBatchSize)

\* a run of four items in batches of three returned after four calls of
\* onProgress, three for the first batch and one for the second
C29_Witness ==
    /\ ReportingRun
    /\ bulkPc = "returned"
    /\ config.nItems = 4
    /\ config.batchSize = 3
    /\ Len(batches) = 2
    /\ Len(progress) = 4
    /\ progress[4].processedItems = 4

\* another batch remains after the one launched last
AnotherBatchRemains ==
    ThroughBatch(Len(batches)) < config.nItems

\* C30: execute suspends for the delay only after a batch has settled and been
\* recorded, and does so, when it goes on after a batch, exactly when another
\* batch remains and delayBetweenBatches > 0; so there is no delay before the
\* first batch or after the last one; when the delay is over the next batch is
\* launched unless a cancel was requested meanwhile or before, and then the run
\* returns cancelled with no further batch
C30_DelayOnlyBetweenBatches ==
    [][/\ (bulkPc # "delay" /\ bulkPc' = "delay") =>
            /\ bulkPc = "recording"
            /\ recIdx' = Len(promises)
            /\ NumSettled = Len(promises)
            /\ Len(batches) >= 1
            /\ AnotherBatchRemains
            /\ config.delayBetweenBatches > 0
       /\ (bulkPc = "recording" /\ bulkPc' \in {"batch", "delay", "returned"}) =>
            (bulkPc' = "delay" <=>
                (AnotherBatchRemains /\ config.delayBetweenBatches > 0))
       /\ (bulkPc = "delay" /\ bulkPc' # "delay") =>
            IF cancelled
            THEN /\ batches' = batches
                 /\ bulkPc' = "returned"
                 /\ status'.status = "cancelled"
            ELSE /\ Len(batches') = Len(batches) + 1
                 /\ bulkPc' = "batch"]_vars

\* a cancel requested during the delay after the first batch: the run
\* returned cancelled and the second batch was never launched
C30_Witness ==
    /\ cancelReq.point = "delay"
    /\ cancelReq.batch = 1
    /\ bulkPc = "returned"
    /\ status.status = "cancelled"
    /\ Len(batches) = 1
    /\ AnotherBatchRemains


-----------------------------------------------------------------------------
(* Dependencies by operation name *)

\* the steps before step k that carry the operation name and have a result
RecordedBefore(k, name) ==
    { j \in 1..(k - 1) : j <= Len(results) /\ steps[j].operation = name }

\* step k names a dependency that no earlier recorded result carries: a forward
\* reference, a self-reference or a name no step has
NamesUnrecorded(k) ==
    /\ steps[k].hasDependsOn
    /\ \E dep \in steps[k].dependsOn : RecordedBefore(k, dep) = {}

\* the recorded result of step k is the dependency failure, without dispatch
FailedUndispatched(k) ==
    /\ results[k].step = k
    /\ ~results[k].success
    /\ results[k].error = "Dependencies not met"
    /\ k \notin InvokedSteps

\* step k declares a dependency on the operation name of the earlier step j
DependsOnStep(k, j) ==
    j < k /\ steps[k].hasDependsOn /\ steps[j].operation \in steps[k].dependsOn

\* a step between j and k carries the operation name of step j and succeeded
SucceededBetween(j, k) ==
    \E i \in (j + 1)..(k - 1) :
        steps[i].operation = steps[j].operation /\ results[i].success

\* every recorded step that names an unrecorded dependency is failed without
\* dispatch
UnrecordedDependencyFails ==
    \A k \in 1..Len(results) : NamesUnrecorded(k) => FailedUndispatched(k)

\* C31: a step whose dependsOn names an operation without an earlier recorded
\* result is never dispatched and is recorded as failed; every later step that
\* depends on it is failed without dispatch in turn; the workflow terminates.
C31_UnrecordedDependencyFailsTransitively ==
    /\ [](/\ UnrecordedDependencyFails
          /\ \A j, k \in 1..Len(results) :
                (NamesUnrecorded(j) /\ DependsOnStep(k, j)) => FailedUndispatched(k))
    /\ <>(wfPc = "done")

\* C31 (amended): as above, for the later steps that depend on the failed step
\* with no step of the same operation name succeeding in between.
C31_UnrecordedDependencyFailsUntilReplaced ==
    /\ [](/\ UnrecordedDependencyFails
          /\ \A j, k \in 1..Len(results) :
                (NamesUnrecorded(j) /\ DependsOnStep(k, j) /\ ~SucceededBetween(j, k))
                    => FailedUndispatched(k))
    /\ <>(wfPc = "done")

\* a self-referencing first step is failed, the second step is dispatched and
\* succeeds, the third depends on both operation names and is failed because
\* of the first; the workflow has returned
C31_Witness ==
    /\ wfPc = "done"
    /\ Len(results) = 3
    /\ steps[1].operation \in steps[1].dependsOn
    /\ FailedUndispatched(1)
    /\ steps[2].operation # steps[1].operation
    /\ results[2].success
    /\ DependsOnStep(3, 1) /\ DependsOnStep(3, 2)
    /\ FailedUndispatched(3)
    /\ InvokedSteps = {2}

\* the greatest element of a non-empty set of step numbers
Latest(S) == CHOOSE j \in S : \A i \in S : i <= j

\* the steps with a recorded result that carry the operation name
RecordedAs(name) ==
    { j \in 1..Len(results) : steps[j].operation = name }

\* the most recent result recorded before step k under the name is a success
LatestSucceeded(k, name) ==
    /\ RecordedBefore(k, name) # {}
    /\ results[Latest(RecordedBefore(k, name))].success

\* C32: step results are kept under the step's operation name, one entry per
\* name holding the most recently recorded result of a step with that name,
\* and a step with dependsOn is failed for its dependencies exactly when the
\* most recent result of one of the names is missing or a failure.
C32_LatestResultPerOperationName ==
    /\ DOMAIN stepResults = { steps[j].operation : j \in 1..Len(results) }
    /\ \A name \in DOMAIN stepResults :
        stepResults[name] = results[Latest(RecordedAs(name))]
    /\ \A k \in 1..Len(results) :
        steps[k].hasDependsOn =>
            ( results[k].error = "Dependencies not met"
                <=> \E dep \in steps[k].dependsOn : ~LatestSucceeded(k, dep) )

\* the first step succeeds, the second carries the same operation name and is
\* failed for a missing dependency, which replaces the success: the third
\* step, depending on that name alone, is failed although step 1 succeeded
C32_Witness ==
    /\ Len(results) = 3
    /\ results[1].success
    /\ steps[2].operation = steps[1].operation
    /\ results[2].error = "Dependencies not met"
    /\ steps[3].hasDependsOn /\ steps[3].dependsOn = {steps[1].operation}
    /\ results[3].error = "Dependencies not met"
    /\ stepResults[steps[1].operation] = results[2]

-----------------------------------------------------------------------------
(* Release of cached instances *)

\* the ids of the instances a cache holds
CachedIds(c) == { c[key].id : key \in DOMAIN c }

\* C33: no agent instance leaves the registry cache without the factory having
\* run destroy on it first, whether it is evicted by updateContext, torn down
\* by destroy() or replaced by getAgent.
C33_DestroyBeforeLeavingCache ==
    [][ \A id \in CachedIds(cache) \ CachedIds(cache') : id \in destroyed' ]_vars

-----------------------------------------------------------------------------
(* The results array of a bulk run *)

\* the forEach of the current batch has recorded its k-th promise
RecordedInBatch(k) ==
    /\ bulkPc \in {"recording", "delay"} \/ fault = CallbackError
    /\ k \in 1..recIdx

\* C34: the results array has one entry per processed item, in item order:
\* entry i belongs to item i however the agent calls settled; the entry of a
\* call that fulfilled with success is the agent's result, any other entry is
\* a failure naming the item.
C34_ResultsFollowItemOrder ==
    /\ Len(opResults) = status.processedItems
    /\ \A i \in 1..Len(opResults) : opResults[i].item = Items(config)[i]
    /\ \A k \in 1..Len(promises) :
        RecordedInBatch(k) =>
            /\ opResults[batchStart + k].success = (promises[k] = "ok")
            /\ opResults[batchStart + k].error = "" <=> promises[k] = "ok"
    /\ bulkReturn.returned => bulkReturn.results = opResults

\* in the second batch the forEach has recorded one item; the results hold a
\* failure and a success of the first batch
C34_Witness ==
    /\ bulkPc = "recording"
    /\ batchStart >= 2
    /\ recIdx = 1
    /\ Len(opResults) = batchStart + 1
    /\ ~opResults[1].success
    /\ opResults[2].success
    /\ promises[1] = "throw"

-----------------------------------------------------------------------------
(* The life cycle of a bulk status *)

\* one assignment to status.status the life cycle allows
StatusStep(from, to) ==
    \/ from = "pending" /\ to = "running"
    \/ from = "running" /\ to \in TerminalStatuses

\* C35: the status of a bulk operation goes pending -> running -> one of
\* completed, cancelled, failed and no other way (the first turn of execute
\* sets running and may go on to the end without suspending); once execute is
\* over the status is terminal, a terminal status, its counters and the
\* results never change again, whatever is called afterwards; endTime is set
\* exactly when the status is terminal.
C35_StatusLifeCycle ==
    /\ [](/\ status.hasEndTime <=> status.status \in TerminalStatuses
          /\ bulkPc \in {"returned", "threw"} => status.status \in TerminalStatuses
          /\ bulkPc = "created" <=> status.status = "pending")
    /\ [][ /\ \/ status'.status = status.status
              \/ StatusStep(status.status, status'.status)
              \/ /\ bulkPc = "created"
                 /\ StatusStep("pending", "running")
                 /\ StatusStep("running", status'.status)
           /\ status.status \in TerminalStatuses =>
                /\ status' = status
                /\ opResults' = opResults
                /\ bulkReturn' = bulkReturn ]_vars

\* the run has completed with all items processed, and cancelOperation was
\* called after that, before executeBulkOperation removed the operation
C35_Witness ==
    /\ bulkPc = "returned"
    /\ status.status = "completed"
    /\ status.totalItems >= 2
    /\ status.processedItems = status.totalItems
    /\ cancelled
    /\ cancelReq.point = "returned"

-----------------------------------------------------------------------------
(* How a bulk run that returns ends *)

\* cancel was first called while the loop of execute was still running:
\* during a batch, from an onProgress callback, or during a delay
CancelledBeforeLoopEnd == cancelReq.point \in {"batch", "recording", "delay"}

-----------------------------------------------------------------------------
(* The active set and the isolation of concurrent bulk operations *)

\* executeBulkOperation was called for the id and has not yet settled
InExecuteBulkOperation(id) ==
    operations[id].pc # "none" /\ ~operations[id].handedOver

-----------------------------------------------------------------------------
(* Initialization under overlapping callers *)

\* C38: however the calls of initialize and executeTask overlap, the setup
\* steps of the coordinator's initialization - the resolution of the agents,
\* the registration of the message listener, the page-change subscription and
\* the start of the monitoring - are performed at most once.
C38_InitializationRunsOnce ==
    /\ setup.resolutions <= 1
    /\ setup.listeners <= 1
    /\ setup.subscriptions <= 1
    /\ setup.monitoringStarts <= 1

-----------------------------------------------------------------------------
(* Termination of a bulk run *)

\* executeBulkOperation has returned to its caller or thrown
ExecuteBulkOperationOver ==
    ~active /\ (bulkReturn.returned \/ bulkReturn.threw)

\* C39: when every agent call settles, executeBulkOperation eventually returns
\* or throws and the status ends terminal for good; the loop index grows with
\* every batch launched, and no item is launched more than once.
C39_BulkRunTerminates ==
    /\ <>ExecuteBulkOperationOver
    /\ <>[](status.status \in TerminalStatuses)
    /\ [](\A item \in 1..config.nItems : TimesLaunched(item) <= 1)
    /\ [][ (Len(batches') > Len(batches) /\ Len(batches) > 0) =>
                batchStart' > batchStart ]_vars

\* the run went through three batches and a delay, the last item was rejected,
\* and executeBulkOperation has returned
C39_Witness ==
    /\ ExecuteBulkOperationOver
    /\ bulkReturn.returned
    /\ Len(batches) >= 3
    /\ config.delayBetweenBatches > 0
    /\ status.processedItems = status.totalItems
    /\ ~opResults[Len(opResults)].success
    /\ \A item \in 1..config.nItems : TimesLaunched(item) = 1

=============================================================================
